---- MODULE Spec2Model ----
(***************************************************************************)
(* A model of diskvm: the virtual-disk extent builder                      *)
(* (diskvm/vm/base.py, VirtualDiskBuilder.add_part) and the orchestrator   *)
(* DiskVmCreator.run with its mount / unmount pipeline (diskvm/runner.py). *)
(*                                                                         *)
(* Two specifications share the variables:                                 *)
(*   SpecBuilder  one VirtualDiskBuilder receiving add_part calls;         *)
(*   Spec         one call of DiskVmCreator.run.                           *)
(***************************************************************************)
EXTENDS Integers, Sequences, FiniteSets, TLC

(***************************************************************************)
(* Bounds of the model.                                                    *)
(***************************************************************************)
\* target offsets of the extent builder range over 0..MaxOffset (bytes)
MaxOffset == 4
\* add_part is not called on a builder that already holds MaxExtents extents
MaxExtents == 3

\* DiskVmCreatorOptions.all_disk_images holds 1..MaxDisks images
MaxDisks == 2
\* at most MaxUnmountFailures unmount / detach / close commands fail in one run
MaxUnmountFailures == 1
\* a recorded builder takes at most MaxParts parts
MaxParts == 3
\* at most MaxPlugins user plugins are registered
MaxPlugins == 2

\* how often in a row an unmount command fails at most
MaxBusy == 12

\* partitions of a disk whose types are looked at
MaxPartitions == 2

\* how often the VM is created from the same inputs
MaxCreations == 2

\* lines of an /etc/shadow
MaxEntries == 2

\* the LBA sizes a builder is configured with, in bytes of the model
SectorSizes == {1, 2}
\* source files of extents: two existing files and a path that does not exist
ValidFiles == {"img", "plain"}

\* source_file = None (Optional[Path]): a zero-filled region
None == "None"

SourceFiles == ValidFiles \cup {"missing", None}

VARIABLES
    \* ---- VirtualDiskBuilder
    disk_parts,     \* VirtualDiskBuilder.disk_parts: sequence of VirtualDiskPart
    sector_size,    \* VirtualDiskBuilder.sector_size
    prev_parts,     \* history: disk_parts before the last add_part call
    last_part,      \* history: the argument of the last add_part call
    last_result,    \* history: "none", "ok" or the error the last call raised
    added,          \* history: the parts add_part accepted, in call order
    \* ---- inputs of DiskVmCreator.run
    images,         \* options.all_disk_images: the layout of each input image
    otf,            \* an on-the-fly-decrypt plugin is registered
    paths,          \* what each path of options.all_disk_images is on the host
    backend,        \* the virtualization software is installed on the host
    \* ---- what _validate_options and _create_vm leave behind
    out_dir,        \* options.out_dir.mkdir was made by _validate_options
    builder_made,   \* virtualization_software.builder(...) was called
    raised,         \* the error _validate_options raised, "none" if it returned
    start_vm,       \* options.start_vm as run read it: "unread", "set" or "unset"
    \* ---- the /etc/shadow of a mounted filesystem
    shadow,         \* whether the file exists, its lines as they are and as they
                    \* were before modify_filesystem, its trailing newline
    \* ---- one unmount hook call of teardown
    um,             \* the plugin called, how often its command fails, the loop
                    \* of retry, the attempts and sleeps made, how the call ended
    \* ---- one before_create_disk call of an on-the-fly-decrypt plugin
    dinfo,          \* the DiskInfo passed: its volumes with their geometry, its
                    \* keep_mounted, the plugin that was called, whether it raised
    \* ---- firmware detection
    created,        \* the on-the-fly-decrypt plugins registered, and the
                    \* descriptor files of each creation of the VM so far
    efi,            \* the partition tables of the analysed disks, options.firmware,
                    \* ctx.additional_info['is_efi'], vm_builder.firmware, and the
                    \* firmware line of the written .vmx
    \* ---- PluginManager
    plugins,        \* PluginManager.plugins: the user plugins, in registration order
    fallback_plugins,   \* PluginManager.fallback_plugins
    last_dispatch,  \* history: the last dispatch_all call and the hooks it invoked
    last_until,     \* history: the last dispatch_until_result call, what the hooks
                    \* it invoked gave back, and what it returned
    \* ---- control state of run
    pc,             \* the statement run is at
    cur,            \* index of the disk the current loop iteration handles
    tag,            \* the DiskInfo the pipeline works on: <<readonly, disk>>
    part_idx,       \* _mount_partitions: index of the next partition
    idx,            \* _mount_filesystems: idx
    frames,         \* the try/finally and with scopes entered, innermost last
    mount_contexts, \* ctx.mount_contexts: the stacks moved there by pop_all
    result,         \* "running", then "ok" (run returned) or "error" (run raised)
    \* ---- objects
    infos,          \* the DiskInfo objects alive, by tag
    built,          \* ctx.vm_builder.disks: per disk the partitions overlaid
    vm_written,     \* ctx.vm is set: the VM and its disks are written
    snapshots,      \* names of the snapshots taken, in order
    vm_state,       \* "off", "running" or "finished"
    \* ---- the host
    held,           \* temp files, temp dirs, mounts, loop devices, mappings held
    fails,          \* number of unmount commands that failed so far
    image_written,  \* some write reached the bytes of an input image
    \* ---- history
    requests,       \* mounts requested: <<kind, disk readonly, requested read-only>>
    hook_log,       \* hooks dispatched for the DiskInfo in scope, in order
    mount_log,      \* volumes `mount` was dispatched for, DiskInfo in scope, in order
    unmount_log,    \* unmount attempts made on the DiskInfo in scope, in order
    release_log,    \* release actions run so far: <<kind, tag>>, in order
    opened_rw,      \* disks opened writable so far
    processed_rw,   \* disks whose writable with-blocks were left normally
    returned,       \* disks for which _add_virtual_disk returned normally
    promoted,       \* per disk: scopes and resources handed to ctx.mount_contexts
    ctx_exiting     \* the with block of ctx.mount_contexts is being left

bvars == <<disk_parts, sector_size, prev_parts, last_part, last_result, added>>

pvars == <<plugins, fallback_plugins, last_dispatch, last_until>>

svars == <<out_dir, builder_made, raised, start_vm, shadow>>

ivars == <<images, otf, pvars, paths, backend, svars, um, dinfo, efi, created>>

cvars == <<pc, cur, tag, part_idx, idx, frames, mount_contexts, result>>

ovars == <<infos, built, vm_written, snapshots, vm_state>>

hvars == <<held, fails, image_written>>

lvars == <<requests, hook_log, mount_log, unmount_log, release_log, opened_rw, processed_rw,
           returned, promoted, ctx_exiting>>

rvars == <<ivars, cvars, ovars, hvars, lvars>>

(***************************************************************************)
(* VirtualDiskPart and add_part.                                           *)
(***************************************************************************)
VirtualDiskPart(source_file, length, source_offset, target_offset) ==
    [source_file |-> source_file, length |-> length,
     source_offset |-> source_offset, target_offset |-> target_offset]

NoPart == VirtualDiskPart("no_call", 0, 0, 0)

PartEnd(p) == p.target_offset + p.length

\* variant of RemoveFirst: list.pop(0), the first element whatever it is
RemoveHead(s, x) == IF s = <<>> THEN <<>> ELSE Tail(s)

\* list.remove(x): drop the first element equal to x
RECURSIVE RemoveFirst(_, _)
RemoveFirst(s, x) ==
    IF s = <<>> THEN <<>>
    ELSE IF Head(s) = x THEN Tail(s)
    ELSE <<Head(s)>> \o RemoveFirst(Tail(s), x)

\* insertion of x after every element whose key is <= the key of x
RECURSIVE InsertByTarget(_, _)
InsertByTarget(s, x) ==
    IF s = <<>> THEN <<x>>
    ELSE IF Head(s).target_offset <= x.target_offset
         THEN <<Head(s)>> \o InsertByTarget(Tail(s), x)
         ELSE <<x>> \o s

\* list.sort(key=lambda p: p.target_offset): a stable sort
RECURSIVE SortByTarget(_)
SortByTarget(s) ==
    IF s = <<>> THEN <<>>
    ELSE InsertByTarget(SortByTarget(SubSeq(s, 1, Len(s) - 1)), s[Len(s)])

\* the branch of the merge loop that existing extent p takes against part
MergeCase(p, part) ==
    IF (p.target_offset < part.target_offset /\ PartEnd(p) <= part.target_offset)
         \/ p.target_offset >= PartEnd(part)
        THEN "disjoint"
    ELSE IF p.target_offset >= part.target_offset /\ PartEnd(p) <= PartEnd(part)
        THEN "replace"
    ELSE IF p.target_offset < part.target_offset
            /\ part.target_offset < PartEnd(p) /\ PartEnd(p) <= PartEnd(part)
        THEN "tail"
    ELSE IF part.target_offset < p.target_offset
            /\ p.target_offset < PartEnd(part) /\ PartEnd(part) < PartEnd(p)
        THEN "head"
    ELSE IF p.target_offset < part.target_offset /\ PartEnd(p) > PartEnd(part)
        THEN "split"
    ELSE "none"

\* "tail": p loses the bytes that part covers at its end
MergeTail(p, part) ==
    [p EXCEPT !.length = p.length - (PartEnd(p) - part.target_offset)]

\* "head": overlap_len as the code computes it
HeadOverlapLen(p, part) == PartEnd(p) - PartEnd(part)

MergeHead(p, part) ==
    [p EXCEPT !.target_offset = p.target_offset + HeadOverlapLen(p, part),
              !.source_offset = p.source_offset + HeadOverlapLen(p, part),
              !.length = p.length - HeadOverlapLen(p, part)]

\* "split": p keeps its head, p2 is the copy that becomes the tail
SplitHead(p, part) == [p EXCEPT !.length = part.target_offset - p.target_offset]

\* variant of SplitTail: the copy keeps the source_offset of p
SplitTailKeepsOffset(p, part) ==
    [p EXCEPT !.length = PartEnd(p) - PartEnd(part),
              !.target_offset = PartEnd(part)]

SplitTail(p, part) ==
    [p EXCEPT !.length = PartEnd(p) - PartEnd(part),
              !.target_offset = PartEnd(part),
              !.source_offset = p.source_offset
                                + (part.target_offset - p.target_offset) + part.length]

\* The loop `for p in list(self.disk_parts)`: done holds the extents already
\* visited (as they now are in self.disk_parts), todo the ones still to visit,
\* extra the split tails appended to self.disk_parts meanwhile.
RECURSIVE MergeLoop(_, _, _, _)
MergeLoop(done, todo, extra, part) ==
    IF todo = <<>> THEN done \o extra
    ELSE LET p == Head(todo)
             c == MergeCase(p, part)
         IN  CASE c = "replace" ->
                    MergeLoop(RemoveFirst(done \o <<p>>, p), Tail(todo), extra, part)
               [] c = "tail" ->
                    MergeLoop(Append(done, MergeTail(p, part)), Tail(todo), extra, part)
               [] c = "head" ->
                    MergeLoop(Append(done, MergeHead(p, part)), Tail(todo), extra, part)
               [] c = "split" ->
                    MergeLoop(Append(done, SplitHead(p, part)), Tail(todo),
                              Append(extra, SplitTail(p, part)), part)
               [] OTHER ->
                    MergeLoop(Append(done, p), Tail(todo), extra, part)

\* the two checks at the head of add_part; "ok" when neither raises.  The first
\* calls part.source_file.is_file(), which on None raises AttributeError
AddPartCheck(part, ssize) ==
    IF part.source_file = None THEN "AttributeError"
    ELSE IF part.source_file \notin ValidFiles THEN "InvalidDiskPartError"
    ELSE IF part.target_offset % ssize # 0 \/ PartEnd(part) % ssize # 0
        THEN "InvalidDiskPartError"
    ELSE "ok"

\* disk_parts after a successful add_part(part)
AddPartResult(parts, part) ==
    SortByTarget(Append(MergeLoop(<<>>, parts, <<>>, part), part))

\* the parts a caller may pass
PartInputs ==
    { VirtualDiskPart(f, l, 0, t) :
        f \in SourceFiles, t \in 0..MaxOffset, l \in 0..MaxOffset }

\* one call of add_part on the builder
AddPartCall(part) ==
    /\ Len(disk_parts) < MaxExtents
    /\ prev_parts' = disk_parts
    /\ last_part' = part
    /\ last_result' = AddPartCheck(part, sector_size)
    /\ disk_parts' = IF AddPartCheck(part, sector_size) = "ok"
                     THEN AddPartResult(disk_parts, part)
                     ELSE disk_parts
    /\ UNCHANGED <<sector_size, rvars>>

\* a call of add_part, accepted or rejected, on a builder whose calls are not
\* recorded
add_part(part) == AddPartCall(part) /\ UNCHANGED added

\* an accepted call of add_part on a builder whose calls are recorded
add_valid_part(part) ==
    /\ Len(added) < MaxParts
    /\ AddPartCheck(part, sector_size) = "ok"
    /\ AddPartCall(part)
    /\ added' = Append(added, part)

\* add_part mutates the extents it trims: the object a caller passed to an
\* earlier call, as the call add_part(part) leaves it (a dropped extent is
\* removed from the list and keeps its fields)
ObjectAfter(p, part) ==
    LET c == MergeCase(p, part)
    IN  CASE c = "tail" -> MergeTail(p, part)
          [] c = "head" -> MergeHead(p, part)
          [] c = "split" -> SplitHead(p, part)
          [] OTHER -> p

\* the third call of a recorded builder passes the object of its first call again
add_same_part ==
    /\ Len(added) = 2
    /\ add_valid_part(ObjectAfter(added[1], added[2]))

\* disk_parts of a builder that starts with parts and takes the calls
\* add_part(seq[1]), add_part(seq[2]), ...
RECURSIVE AddAll(_, _)
AddAll(parts, seq) ==
    IF seq = <<>> THEN parts ELSE AddAll(AddPartResult(parts, Head(seq)), Tail(seq))

(***************************************************************************)
(* Inputs of run: what an image holds.  A partition (or an unwrapped       *)
(* volume) holds nothing mountable, a filesystem, an encrypted container   *)
(* (LUKS, BitLocker, VeraCrypt) around one content, or an LVM physical     *)
(* volume whose group has one logical volume per inner content.            *)
(***************************************************************************)
Raw == [type |-> "raw", inner |-> <<>>]

Fs == [type |-> "fs", inner |-> <<>>]

Crypt(c) == [type |-> "crypt", inner |-> <<c>>]

Lvm(cs) == [type |-> "lvm", inner |-> cs]

\* the partition tables of the input images: a disk with a filesystem and an
\* encrypted filesystem, and a disk whose partition is an encrypted container
\* around a volume group with two logical volumes
DiskLayouts == { <<Fs, Crypt(Fs)>>, <<Crypt(Lvm(<<Raw, Fs>>))>> }

Disks == 1..MaxDisks

\* a DiskInfo is named by <<readonly, disk>>: the input image opened read-only,
\* or the written virtual disk opened writable
Tags == BOOLEAN \X Disks

NoDisk == [readonly |-> TRUE, image_rw |-> FALSE, layout |-> <<>>, volumes |-> <<>>,
           keep_mounted |-> FALSE, alive |-> FALSE]

\* DiskInfo(flat_mounted_disk, readonly); layout is what refresh_disk_info
\* parses; image_rw: a write to flat_mounted_disk changes an input image
DiskInfo(readonly, image_rw, layout) ==
    [readonly |-> readonly, image_rw |-> image_rw, layout |-> layout,
     volumes |-> <<>>, keep_mounted |-> FALSE, alive |-> TRUE]

\* VolumeInfo: kind is "loop" (partition), "crypt" (unlocked container) or "lv";
\* parent is an index into DiskInfo.volumes, 0 for None; flat_mount and
\* filesystem_mount tell whether the field is set; image_rw: a write to the
\* device changes an input image
VolumeInfo(kind, parent, content, image_rw) ==
    [kind |-> kind, parent |-> parent, content |-> content, flat_mount |-> TRUE,
     filesystem_mount |-> FALSE, image_rw |-> image_rw]

Frame(kind, t) == [kind |-> kind, tag |-> t]

\* something held on the host: "tmpfile" and "bind" (mount_disk_image), "vtmpdir"
\* and "vmount" (Vmware.mount_disk), "loop" (losetup), "mapping" (cryptsetup
\* open, dislocker), "vg" (vgchange -a y, v the physical volume), "fsmount" (a
\* temp dir with a filesystem mounted on it); v is 0 for those of the disk
Token(kind, t, v) == <<kind, t, v>>

TokensOf(heldset, t) == { k \in heldset : k[2] = t }

Top(s) == s[Len(s)]

Pop(s) == SubSeq(s, 1, Len(s) - 1)

RECURSIVE SeqToSet(_)
SeqToSet(s) == IF s = <<>> THEN {} ELSE {Head(s)} \cup SeqToSet(Tail(s))

RECURSIVE Flatten(_)
Flatten(ss) == IF ss = <<>> THEN <<>> ELSE Head(ss) \o Flatten(Tail(ss))

(***************************************************************************)
(* PluginManager.dispatch_all as the pipeline uses it.  A hook may raise:  *)
(* the hooks dispatched are then a prefix of the ones the code names.      *)
(***************************************************************************)
Hook(name, obj, info) == [hook |-> name, obj |-> obj, readonly |-> info.readonly]

\* mount_disk: mounted_disk, then modify_disk if the disk is not read-only
MountDiskHooks(info) ==
    <<Hook("mounted_disk", 0, info)>>
    \o (IF ~info.readonly THEN <<Hook("modify_disk", 0, info)>> ELSE <<>>)

\* _add_partition_info: mounted_volume, then modify_volume if not read-only
PartitionHooks(info, v) ==
    <<Hook("mounted_volume", v, info)>>
    \o (IF ~info.readonly THEN <<Hook("modify_volume", v, info)>> ELSE <<>>)

\* variant of FilesystemHooks: modify_filesystem whatever the flag
AlwaysModifyFilesystem(info, v) ==
    <<Hook("mounted_filesystem", v, info), Hook("modify_filesystem", v, info)>>

\* _mount_filesystems, a path was returned: mounted_filesystem, then
\* modify_filesystem if not read-only
FilesystemHooks(info, v) ==
    <<Hook("mounted_filesystem", v, info)>>
    \o (IF ~info.readonly THEN <<Hook("modify_filesystem", v, info)>> ELSE <<>>)

\* _mount_filesystems, new volume v was returned: mounted_volume, then
\* modify_volume if not read-only
ChildHooks(info, v) ==
    <<Hook("mounted_volume", v, info)>>
    \o (IF ~info.readonly THEN <<Hook("modify_volume", v, info)>> ELSE <<>>)

ModifyHooks == {"modify_disk", "modify_volume", "modify_filesystem"}

\* a modify_* hook that runs on a writable object whose bytes are those of an
\* input image writes to the image
HooksWrite(hooks, image_rw) ==
    image_rw /\ \E i \in 1..Len(hooks) : hooks[i].hook \in ModifyHooks

(***************************************************************************)
(* The read-only flag of each mount request.                               *)
(***************************************************************************)
\* mount_disk_image: mount --read-only --bind
BindReadOnly == TRUE

\* variant of LosetupReadOnly: losetup never given --read-only
LosetupNeverReadOnly(info) == FALSE

\* _add_partition_info: losetup ... --read-only if disk_info.readonly
LosetupReadOnly(info) == info.readonly

\* GenericMountPlugin.run_mount: mount ... --read-only if disk_info.readonly
RunMountReadOnly(info) == info.readonly

\* try_mount_luks: cryptsetup open ... --readonly if disk_info.readonly
CryptOpenReadOnly(info) == info.readonly

\* LvmMountPlugin.activate_volume_group: vgchange takes no read-only argument
VgchangeReadOnly(info) == FALSE

\* run: mount_disk(disk=d, readonly=False)
ModifyReadOnly == FALSE

Request(kind, info, ro) == <<kind, info.readonly, ro>>

(***************************************************************************)
(* unmount_partitions_and_filesystems.                                     *)
(***************************************************************************)
RECURSIVE volume_depth(_, _)
volume_depth(volumes, v) ==
    IF volumes[v].parent = 0 THEN 0 ELSE 1 + volume_depth(volumes, volumes[v].parent)

MaxDepthOf(volumes) ==
    IF volumes = <<>> THEN 0
    ELSE CHOOSE d \in 0..Len(volumes) :
            /\ \E v \in 1..Len(volumes) : volume_depth(volumes, v) = d
            /\ \A v \in 1..Len(volumes) : volume_depth(volumes, v) <= d

\* variant of DepthOrder: groupby without reverse=True
RECURSIVE AscendingDepths(_)
AscendingDepths(d) == IF d = 0 THEN <<0>> ELSE AscendingDepths(d - 1) \o <<d>>

\* the depths in the order groupby(..., reverse=True) yields their groups
RECURSIVE DepthOrder(_)
DepthOrder(d) == IF d = 0 THEN <<0>> ELSE <<d>> \o DepthOrder(d - 1)

\* variant of GroupOf: the volumes of one depth, last in the list first
RECURSIVE ReversedGroupOf(_, _, _)
ReversedGroupOf(volumes, d, v) ==
    IF v > Len(volumes) THEN <<>>
    ELSE ReversedGroupOf(volumes, d, v + 1)
         \o (IF volume_depth(volumes, v) = d THEN <<v>> ELSE <<>>)

\* the volumes of one depth, in list order
RECURSIVE GroupOf(_, _, _)
GroupOf(volumes, d, v) ==
    IF v > Len(volumes) THEN <<>>
    ELSE (IF volume_depth(volumes, v) = d THEN <<v>> ELSE <<>>)
         \o GroupOf(volumes, d, v + 1)

\* an attempt: the hook, the volume and (for the record) the volume's parent
\* and depth
RECURSIVE Ops(_, _, _)
Ops(op, volumes, group) ==
    IF group = <<>> THEN <<>>
    ELSE <<[op |-> op, v |-> Head(group), parent |-> volumes[Head(group)].parent,
            depth |-> volume_depth(volumes, Head(group))]>>
         \o Ops(op, volumes, Tail(group))

\* per group: the filesystem loop, then the volume loop
GroupAttempts(volumes, d) ==
    Ops("unmount_filesystem", volumes, GroupOf(volumes, d, 1))
    \o Ops("unmount_volume", volumes, GroupOf(volumes, d, 1))

RECURSIVE AttemptsIn(_, _)
AttemptsIn(volumes, depths) ==
    IF depths = <<>> THEN <<>>
    ELSE GroupAttempts(volumes, Head(depths)) \o AttemptsIn(volumes, Tail(depths))

\* every (loop, volume) pair of unmount_partitions_and_filesystems, in order
UnmountAttempts(volumes) ==
    IF volumes = <<>> THEN <<>> ELSE AttemptsIn(volumes, DepthOrder(MaxDepthOf(volumes)))

\* what keeps the device or mount point of an attempt in existence
TokenOf(t, volumes, a) ==
    IF a.op = "unmount_filesystem" THEN Token("fsmount", t, a.v)
    ELSE IF volumes[a.v].kind = "loop" THEN Token("loop", t, a.v)
    ELSE IF volumes[a.v].kind = "crypt" THEN Token("mapping", t, a.v)
    ELSE Token("vg", t, volumes[a.v].parent)

\* `if v.filesystem_mount and v.filesystem_mount.exists()` and its flat_mount twin
AttemptGuard(t, st, a) ==
    /\ IF a.op = "unmount_filesystem" THEN st.volumes[a.v].filesystem_mount
                                      ELSE st.volumes[a.v].flat_mount
    /\ TokenOf(t, st.volumes, a) \in st.held

\* the record of an attempt that was made, with how it ended
Logged(a, ok) ==
    [op |-> a.op, v |-> a.v, parent |-> a.parent, depth |-> a.depth, ok |-> ok]

\* a successful unmount hook: the mount is gone and the field is cleared
AttemptOk(t, st, a) ==
    [volumes |-> IF a.op = "unmount_filesystem"
                 THEN [st.volumes EXCEPT ![a.v].filesystem_mount = FALSE]
                 ELSE [st.volumes EXCEPT ![a.v].flat_mount = FALSE],
     held |-> st.held \ {TokenOf(t, st.volumes, a)},
     log |-> Append(st.log, Logged(a, TRUE)),
     failed |-> st.failed]

\* the hook reported failure or raised DiskVmError: logged, nothing changes
AttemptFailed(st, a) ==
    [st EXCEPT !.log = Append(st.log, Logged(a, FALSE)), !.failed = st.failed + 1]

\* variant of RunAttempts: the first failing hook ends the teardown
RECURSIVE RunAttemptsUntilFailure(_, _, _, _)
RunAttemptsUntilFailure(t, st, attempts, failing) ==
    IF attempts = <<>> THEN st
    ELSE LET a == Head(attempts)
         IN  IF ~AttemptGuard(t, st, a)
             THEN RunAttemptsUntilFailure(t, st, Tail(attempts), failing)
             ELSE IF a \in failing THEN AttemptFailed(st, a)
             ELSE RunAttemptsUntilFailure(t, AttemptOk(t, st, a), Tail(attempts), failing)

RECURSIVE RunAttempts(_, _, _, _)
RunAttempts(t, st, attempts, failing) ==
    IF attempts = <<>> THEN st
    ELSE LET a == Head(attempts)
             nx == IF ~AttemptGuard(t, st, a) THEN st
                   ELSE IF a \in failing THEN AttemptFailed(st, a)
                   ELSE AttemptOk(t, st, a)
         IN  RunAttempts(t, nx, Tail(attempts), failing)

\* unmount_partitions_and_filesystems(disk_info) with the commands of the
\* attempts in failing failing
Teardown(t, volumes, heldset, failing) ==
    RunAttempts(t, [volumes |-> volumes, held |-> heldset, log |-> <<>>, failed |-> 0],
                UnmountAttempts(volumes), failing)

\* the sets of attempts that may fail within the budget left
FailingSets(volumes, budget) ==
    { F \in SUBSET SeqToSet(UnmountAttempts(volumes)) : Cardinality(F) <= budget }
(***************************************************************************)
(* DiskVmCreator.run.                                                      *)
(***************************************************************************)
\* the hooks dispatched when hook number r of hooks raises (r = 0: none does)
Dispatched(hooks, r) == IF r = 0 THEN hooks ELSE SubSeq(hooks, 1, r)

AfterHooks(r, next) == IF r = 0 THEN next ELSE "raise"

\* where control goes once _mount_filesystems is over
AfterWalk(t) == IF t[1] THEN "before_create_disk" ELSE "leave_rw"

\* variant of WalkOrAfter: the walk covers the volumes of the partition table
\* only, as a loop over a copy of the list made before the walk would
WalkPartitionsOnly(t, volumes, i) ==
    IF i <= Len(infos[t].layout) THEN "mount_filesystems" ELSE AfterWalk(t)

\* the loop condition of _mount_filesystems: idx < len(disk_info.volumes)
WalkOrAfter(t, volumes, i) ==
    IF i <= Len(volumes) THEN "mount_filesystems" ELSE AfterWalk(t)

\* variant of PartitionsOrWalk: for an input disk before_create_disk is
\* dispatched once the partitions are set up, ahead of _mount_filesystems
DispatchBeforeWalk(t, info, p) ==
    IF p <= Len(info.layout) THEN "mount_partitions"
    ELSE IF t[1] THEN "before_create_disk" ELSE WalkOrAfter(t, info.volumes, 1)

\* the loop of _mount_partitions over the partitions of the table
PartitionsOrWalk(t, info, p) ==
    IF p <= Len(info.layout) THEN "mount_partitions" ELSE WalkOrAfter(t, info.volumes, 1)

\* what a path can be on the host
PathKinds == {"file", "block_device", "directory", "missing"}

\* variant of InvalidPath: only the existence of the path is checked
InvalidPathMissingOnly(kind) == kind = "missing"

\* `not disk_image.exists() or (not disk_image.is_file() and not
\* disk_image.is_block_device())`
InvalidPath(kind) ==
    kind = "missing" \/ (kind # "file" /\ kind # "block_device")

\* _validate_options: the error it raises ("none": it returns) and whether it
\* got as far as options.out_dir.mkdir; mkdir_ok: the mkdir succeeds
validate_options(available, kinds, mkdir_ok) ==
    IF ~available
    THEN [error |-> "VirtualizationSoftwareNotAvailable", out_dir |-> FALSE]
    ELSE IF \E i \in DOMAIN kinds : InvalidPath(kinds[i])
    THEN [error |-> "InvalidDiskError", out_dir |-> FALSE]
    ELSE IF ~mkdir_ok THEN [error |-> "OSError", out_dir |-> FALSE]
    ELSE [error |-> "none", out_dir |-> TRUE]

\* _validate_options, _create_context, entering `with ctx.mount_contexts`, and
\* the builder of _create_vm
Validate ==
    /\ pc = "validate"
    /\ \E mkdir_ok \in BOOLEAN :
        LET v == validate_options(backend, paths, mkdir_ok)
        IN  /\ raised' = v.error
            /\ out_dir' = v.out_dir
            /\ builder_made' = (v.error = "none")
            /\ IF v.error = "none"
               THEN /\ pc' = "mount_disk_image"
                    /\ frames' = <<Frame("ctx", tag)>>
                    /\ result' = result
               ELSE /\ pc' = "exited"
                    /\ frames' = frames
                    /\ result' = "error"
    /\ UNCHANGED <<cur, tag, part_idx, idx, mount_contexts>>
    /\ UNCHANGED <<images, otf, pvars, paths, backend, start_vm, shadow, um, dinfo, efi,
                   created>>
    /\ UNCHANGED <<bvars, ovars, hvars, lvars>>

\* _add_virtual_disk, its first statements: `with ExitStack() as mounts` and
\* mounts.enter_context(self.mount_disk_image(...)) up to the yield
MountDiskImage ==
    /\ pc = "mount_disk_image"
    /\ LET t == <<TRUE, cur>>
           info == DiskInfo(TRUE, ~BindReadOnly, images[cur])
       IN  \E out \in {"ok", "mount_fails", "hook_raises"} :
            /\ tag' = t
            /\ frames' = frames \o <<Frame("mounts", t), Frame("image", t)>>
            /\ IF out = "mount_fails"
               THEN /\ held' = held \cup {Token("tmpfile", t, 0)}
                    /\ pc' = "raise"
                    /\ UNCHANGED <<infos, requests, hook_log>>
               ELSE /\ held' = held \cup {Token("tmpfile", t, 0), Token("bind", t, 0)}
                    /\ infos' = [infos EXCEPT ![t] = info]
                    /\ requests' = requests \cup {Request("bind", info, BindReadOnly)}
                    /\ hook_log' = <<Hook("mounted_disk", 0, info)>>
                    /\ pc' = IF out = "ok" THEN "begin_disk" ELSE "raise"
    /\ mount_log' = <<>>
    /\ UNCHANGED <<cur, part_idx, idx, mount_contexts, result>>
    /\ UNCHANGED <<built, vm_written, snapshots, vm_state, fails, image_written>>
    /\ UNCHANGED <<unmount_log, release_log, opened_rw, processed_rw, returned,
                   promoted, ctx_exiting>>
    /\ UNCHANGED <<bvars, ivars>>

\* _add_virtual_disk: new_disk, add_part of the whole image, the second
\* dispatch of mounted_disk, and entering mount_partitions_and_filesystems
BeginVirtualDisk ==
    /\ pc = "begin_disk"
    /\ \E out \in {"ok", "add_part_raises", "hook_raises"} :
        /\ hook_log' = IF out = "add_part_raises" THEN hook_log
                       ELSE Append(hook_log, Hook("mounted_disk", 0, infos[tag]))
        /\ IF out = "ok"
           THEN /\ frames' = Append(frames, Frame("parts", tag))
                /\ part_idx' = 1
                /\ pc' = PartitionsOrWalk(tag, infos[tag], 1)
           ELSE /\ pc' = "raise"
                /\ UNCHANGED <<frames, part_idx>>
    /\ idx' = 1
    /\ UNCHANGED <<cur, tag, mount_contexts, result>>
    /\ UNCHANGED <<requests, mount_log, unmount_log, release_log, opened_rw, processed_rw,
                   returned, promoted, ctx_exiting>>
    /\ UNCHANGED <<bvars, ivars, ovars, hvars>>

\* _mount_partitions: one iteration, that is one call of _add_partition_info
AddPartitionInfo ==
    /\ pc = "mount_partitions"
    /\ LET info == infos[tag]
           v == Len(info.volumes) + 1
           ro == LosetupReadOnly(info)
           vol == VolumeInfo("loop", 0, info.layout[part_idx], info.image_rw /\ ~ro)
           hooks == PartitionHooks(info, v)
       IN  \E losetup_ok \in BOOLEAN : \E r \in 0..Len(hooks) :
            IF ~losetup_ok
            THEN /\ r = 0
                 /\ pc' = "raise"
                 /\ UNCHANGED <<part_idx, infos, held, image_written, requests, hook_log>>
            ELSE /\ held' = held \cup {Token("loop", tag, v)}
                 /\ infos' = [infos EXCEPT ![tag].volumes = Append(@, vol)]
                 /\ requests' = requests \cup {Request("loop", info, ro)}
                 /\ hook_log' = hook_log \o Dispatched(hooks, r)
                 /\ image_written' =
                        (image_written \/ HooksWrite(Dispatched(hooks, r), vol.image_rw))
                 /\ part_idx' = part_idx + 1
                 /\ pc' = AfterHooks(r, PartitionsOrWalk(tag, infos'[tag], part_idx + 1))
    /\ UNCHANGED <<cur, tag, idx, frames, mount_contexts, result>>
    /\ UNCHANGED <<built, vm_written, snapshots, vm_state, fails>>
    /\ UNCHANGED <<mount_log, unmount_log, release_log, opened_rw, processed_rw, returned,
                   promoted, ctx_exiting>>
    /\ UNCHANGED <<bvars, ivars>>

\* what dispatch_until_result('mount', p) can come to, by what p holds:
\*   "none"    no plugin mounts p (nothing to mount, no key, or the tool failed
\*             inside a plugin that catches DiskVmError);
\*   "done"    GenericMountPlugin returned a path, a container plugin returned
\*             the unlocked volume, LvmMountPlugin returned the logical volumes;
\*   "raises"  LvmMountPlugin: pvdisplay or vgchange failed, the error leaves mount;
\*   "leaks"   LvmMountPlugin: lvdisplay failed after vgchange activated the group;
\*   "no_size" the plugin returned its volumes, and size_blockdevice(new_p.flat_mount)
\*             raised for one of them in the `for new_p in res` loop
MountOutcomes(content) ==
    CASE content.type = "raw" -> {"none"}
      [] content.type = "fs" -> {"none", "done"}
      [] content.type = "crypt" -> {"none", "done", "no_size"}
      [] content.type = "lvm" -> {"none", "done", "raises", "leaks", "no_size"}

\* the kind of the volumes a container yields
ChildKind(content) == IF content.type = "crypt" THEN "crypt" ELSE "lv"

\* the read-only flag the plugin passes when it mounts or opens p
MountReadOnly(content, info) ==
    CASE content.type = "fs" -> RunMountReadOnly(info)
      [] content.type = "crypt" -> CryptOpenReadOnly(info)
      [] OTHER -> VgchangeReadOnly(info)

RequestKind(content) ==
    CASE content.type = "fs" -> "fs"
      [] content.type = "crypt" -> "unlock"
      [] OTHER -> "lvm"

\* res of the `for new_p in res` loop: the first n volumes of a container
RECURSIVE NewVolumes(_, _, _, _)
NewVolumes(content, parent, image_rw, n) ==
    IF n = 0 THEN <<>>
    ELSE Append(NewVolumes(content, parent, image_rw, n - 1),
                VolumeInfo(ChildKind(content), parent, content.inner[n], image_rw))

\* the hooks of the `for new_p in res` loop for the children first..last
RECURSIVE ChildrenHooks(_, _, _)
ChildrenHooks(info, first, last) ==
    IF first > last THEN <<>>
    ELSE ChildHooks(info, first) \o ChildrenHooks(info, first + 1, last)

\* how many children the loop has appended when hook number r raises
ChildrenAppended(info, n, r) ==
    IF r = 0 THEN n
    ELSE CHOOSE k \in 1..n :
            /\ r <= Len(ChildrenHooks(info, 1, k))
            /\ r > Len(ChildrenHooks(info, 1, k - 1))

\* _mount_filesystems: one iteration of the while loop
MountVolume ==
    /\ pc = "mount_filesystems"
    /\ LET info == infos[tag]
           p == info.volumes[idx]
           c == p.content
           ro == MountReadOnly(c, info)
           first == Len(info.volumes) + 1
           n == Len(c.inner)
           hooks == IF c.type = "fs" THEN FilesystemHooks(info, idx)
                    ELSE ChildrenHooks(info, first, first + n - 1)
           token == CASE c.type = "fs" -> Token("fsmount", tag, idx)
                      [] c.type = "crypt" -> Token("mapping", tag, first)
                      [] OTHER -> Token("vg", tag, idx)
       IN  \E out \in MountOutcomes(c) : \E r \in 0..Len(hooks) :
            /\ p.flat_mount
            /\ CASE out = "none" ->
                    /\ r = 0
                    /\ pc' = WalkOrAfter(tag, info.volumes, idx + 1)
                    /\ UNCHANGED <<infos, held, image_written, requests, hook_log>>
                 [] out = "raises" ->
                    /\ r = 0
                    /\ pc' = "raise"
                    /\ UNCHANGED <<infos, held, image_written, requests, hook_log>>
                 [] out = "leaks" ->
                    /\ r = 0
                    /\ pc' = "raise"
                    /\ held' = held \cup {token}
                    /\ requests' = requests \cup {Request(RequestKind(c), info, ro)}
                    /\ UNCHANGED <<infos, image_written, hook_log>>
                 [] out = "no_size" ->
                    \E s \in 1..n :
                        LET done == ChildrenHooks(info, first, first + s - 2)
                        IN  /\ r = 0
                            /\ pc' = "raise"
                            /\ held' = held \cup {token}
                            /\ requests' = requests \cup {Request(RequestKind(c), info, ro)}
                            /\ hook_log' = hook_log \o done
                            /\ infos' = [infos EXCEPT ![tag].volumes =
                                            @ \o NewVolumes(c, idx, p.image_rw /\ ~ro, s - 1)]
                            /\ image_written' =
                                (image_written \/ HooksWrite(done, p.image_rw /\ ~ro))
                 [] out = "done" ->
                    /\ held' = held \cup {token}
                    /\ requests' = requests \cup {Request(RequestKind(c), info, ro)}
                    /\ hook_log' = hook_log \o Dispatched(hooks, r)
                    /\ infos' =
                        IF c.type = "fs"
                        THEN [infos EXCEPT ![tag].volumes[idx].filesystem_mount = TRUE]
                        ELSE [infos EXCEPT ![tag].volumes =
                                @ \o NewVolumes(c, idx, p.image_rw /\ ~ro,
                                                ChildrenAppended(info, n, r))]
                    /\ image_written' =
                        (image_written
                            \/ (c.type = "fs" /\ p.image_rw /\ ~ro)
                            \/ HooksWrite(Dispatched(hooks, r), p.image_rw /\ ~ro))
                    /\ pc' = AfterHooks(r, WalkOrAfter(tag, infos'[tag].volumes, idx + 1))
            /\ idx' = idx + 1
    /\ mount_log' = Append(mount_log, idx)
    /\ UNCHANGED <<cur, tag, part_idx, frames, mount_contexts, result>>
    /\ UNCHANGED <<built, vm_written, snapshots, vm_state, fails>>
    /\ UNCHANGED <<unmount_log, release_log, opened_rw, processed_rw, returned,
                   promoted, ctx_exiting>>
    /\ UNCHANGED <<bvars, ivars>>

\* the volumes an on-the-fly-decrypt plugin overlays in before_create_disk: the
\* unlocked volumes ('mounted') whose parent is the encrypted one ('enabled')
Unlocked(info) ==
    { v \in 1..Len(info.volumes) :
        /\ info.volumes[v].kind = "crypt"
        /\ info.volumes[v].parent # 0 }

\* mounts.pop_all(): the scopes entered on the stack `mounts` of disk t, and
\* what is left of the scopes once they are moved out
InStack(f, t) == f.tag = t /\ f.kind \in {"image", "parts"}

PopAll(fr, t) == SelectSeq(fr, LAMBDA f : InStack(f, t))

\* variant of AfterPopAll: the callbacks are copied, the stack keeps them
KeepScopes(fr, t) == fr

AfterPopAll(fr, t) == SelectSeq(fr, LAMBDA f : ~InStack(f, t))

\* _add_virtual_disk: before_create_disk, add_disk, and the promotion of the
\* mounts when a plugin set keep_mounted
BeforeCreateDisk ==
    /\ pc = "before_create_disk"
    /\ LET info == infos[tag]
           keep == otf /\ Unlocked(info) # {}
           overlay == IF otf THEN { info.volumes[v].parent : v \in Unlocked(info) } ELSE {}
       IN  \E ok \in BOOLEAN :
            IF ~ok
            THEN /\ pc' = "raise"
                 /\ UNCHANGED <<frames, mount_contexts, infos, built, promoted>>
            ELSE /\ pc' = "leave_mounts"
                 /\ infos' = [infos EXCEPT ![tag].keep_mounted = keep]
                 /\ built' = Append(built, overlay)
                 /\ frames' = IF keep THEN AfterPopAll(frames, tag) ELSE frames
                 /\ mount_contexts' = IF keep THEN Append(mount_contexts, PopAll(frames, tag))
                                      ELSE mount_contexts
                 /\ promoted' = IF keep THEN [promoted EXCEPT ![cur] = TokensOf(held, tag)]
                                ELSE promoted
    /\ hook_log' = Append(hook_log, Hook("before_create_disk", 0, infos[tag]))
    /\ UNCHANGED <<cur, tag, part_idx, idx, result>>
    /\ UNCHANGED <<vm_written, snapshots, vm_state>>
    /\ UNCHANGED <<requests, mount_log, unmount_log, release_log, opened_rw, processed_rw,
                   returned, ctx_exiting>>
    /\ UNCHANGED <<bvars, ivars, hvars>>

\* variant of NextStatement: no snapshot before the disks are modified
SkipInitialSnapshot(stmt) ==
    CASE stmt = "create_vm" -> "mount_disk"
      [] stmt = "snapshot_initial" -> "mount_disk"
      [] stmt = "modify_disks" -> "snapshot_finished"
      [] stmt = "snapshot_finished" -> "start_vm"

\* the statement that follows stmt in the body of `with ctx.mount_contexts`
NextStatement(stmt) ==
    CASE stmt = "create_vm" -> "snapshot_initial"
      [] stmt = "snapshot_initial" -> "mount_disk"
      [] stmt = "modify_disks" -> "snapshot_finished"
      [] stmt = "snapshot_finished" -> "start_vm"

RECURSIVE Reverse(_)
Reverse(s) == IF s = <<>> THEN <<>> ELSE Append(Reverse(Tail(s)), Head(s))

\* variant of UnwindOrder: the stacks are left in the order they were entered
AcquisitionOrder(contexts) == Flatten(Reverse(contexts))

\* ExitStack.__exit__ of ctx.mount_contexts: the scopes it unwinds, the first
\* to be left last in the sequence
UnwindOrder(contexts) == Flatten(contexts)

\* variant of UnlinkMountPoint: the unlink of a busy mount point passes
UnlinkIgnored(stmt) == stmt

\* mount_point.unlink() after a failed umount: the file is still a mount point,
\* the unlink raises
UnlinkMountPoint(stmt) == "raise"

\* the budget of failing unmount commands that is left
Budget == MaxUnmountFailures - fails

Unwinding == pc \in {"leave_mounts", "leave_rw", "leave_ctx", "raise"}

\* the finally of mount_partitions_and_filesystems
ExitParts ==
    /\ Unwinding
    /\ frames # <<>>
    /\ Top(frames).kind = "parts"
    /\ LET t == Top(frames).tag
       IN  \E F \in FailingSets(infos[t].volumes, Budget) :
            LET st == Teardown(t, infos[t].volumes, held, F)
            IN  /\ infos' = [infos EXCEPT ![t].volumes = st.volumes]
                /\ held' = st.held
                /\ fails' = fails + st.failed
                /\ unmount_log' = st.log
                /\ release_log' = Append(release_log, <<"parts", t>>)
    /\ frames' = Pop(frames)
    /\ UNCHANGED <<pc, cur, tag, part_idx, idx, mount_contexts, result>>
    /\ UNCHANGED <<built, vm_written, snapshots, vm_state, image_written>>
    /\ UNCHANGED <<requests, hook_log, mount_log, opened_rw, processed_rw, returned, promoted,
                   ctx_exiting>>
    /\ UNCHANGED <<bvars, ivars>>

\* the finally of mount_disk_image: umount (its error is swallowed), then unlink
ExitImage ==
    /\ Unwinding
    /\ frames # <<>>
    /\ Top(frames).kind = "image"
    /\ LET t == Top(frames).tag
       IN  /\ \E umount_ok \in BOOLEAN :
                IF Token("bind", t, 0) \notin held
                THEN /\ umount_ok
                     /\ held' = held \ {Token("tmpfile", t, 0)}
                     /\ UNCHANGED <<pc, fails>>
                ELSE IF umount_ok
                THEN /\ held' = held \ {Token("bind", t, 0), Token("tmpfile", t, 0)}
                     /\ UNCHANGED <<pc, fails>>
                ELSE /\ Budget > 0
                     /\ fails' = fails + 1
                     /\ pc' = UnlinkMountPoint(pc)
                     /\ held' = held
           /\ infos' = [infos EXCEPT ![t] = NoDisk]
           /\ release_log' = Append(release_log, <<"image", t>>)
    /\ frames' = Pop(frames)
    /\ hook_log' = <<>>
    /\ mount_log' = <<>>
    /\ unmount_log' = <<>>
    /\ UNCHANGED <<cur, tag, part_idx, idx, mount_contexts, result>>
    /\ UNCHANGED <<built, vm_written, snapshots, vm_state, image_written>>
    /\ UNCHANGED <<requests, opened_rw, processed_rw, returned, promoted, ctx_exiting>>
    /\ UNCHANGED <<bvars, ivars>>

\* leaving `with ExitStack() as mounts`: _add_virtual_disk returns or raises;
\* on return the loop of _create_vm goes on
ExitMounts ==
    /\ Unwinding
    /\ frames # <<>>
    /\ Top(frames).kind = "mounts"
    /\ frames' = Pop(frames)
    /\ IF pc = "leave_mounts"
       THEN /\ returned' = returned \cup {cur}
            /\ IF cur < Len(images)
               THEN /\ cur' = cur + 1
                    /\ pc' = "mount_disk_image"
               ELSE /\ cur' = cur
                    /\ pc' = "create_vm"
       ELSE UNCHANGED <<pc, cur, returned>>
    /\ UNCHANGED <<tag, part_idx, idx, mount_contexts, result>>
    /\ UNCHANGED <<requests, hook_log, mount_log, unmount_log, release_log, opened_rw,
                   processed_rw, promoted, ctx_exiting>>
    /\ UNCHANGED <<bvars, ivars, ovars, hvars>>

\* _create_vm, after the loop: before_create_vm and vm_builder.write
WriteVm ==
    /\ pc = "create_vm"
    /\ \E ok \in BOOLEAN :
        IF ok THEN /\ vm_written' = TRUE
                   /\ pc' = NextStatement("create_vm")
              ELSE /\ vm_written' = vm_written
                   /\ pc' = "raise"
    /\ UNCHANGED <<cur, tag, part_idx, idx, frames, mount_contexts, result>>
    /\ UNCHANGED <<infos, built, snapshots, vm_state>>
    /\ UNCHANGED <<bvars, ivars, hvars, lvars>>

\* ctx.vm.snapshot(name)
Snapshot(name, stmt) ==
    /\ pc = stmt
    /\ \E ok \in BOOLEAN :
        IF ok THEN /\ snapshots' = Append(snapshots, name)
                   /\ pc' = NextStatement(stmt)
              ELSE /\ snapshots' = snapshots
                   /\ pc' = "raise"
    /\ cur' = 1
    /\ UNCHANGED <<tag, part_idx, idx, frames, mount_contexts, result>>
    /\ UNCHANGED <<infos, built, vm_written, vm_state>>
    /\ UNCHANGED <<bvars, ivars, hvars, lvars>>

SnapshotInitial == Snapshot("Initial", "snapshot_initial")

SnapshotFinished == Snapshot("InitFinished", "snapshot_finished")

\* what the written virtual disk of an image shows: the partitions overlaid by
\* an on-the-fly-decrypt plugin show the content of the unlocked volume
VirtualLayout(layout, overlay) ==
    [p \in 1..Len(layout) |-> IF p \in overlay THEN layout[p].inner[1] ELSE layout[p]]

\* a write to a virtual disk reaches the extents of the input image unless a
\* snapshot stands between them (VmwareVirtualMachine.disks)
WritesReachImage(snaps) == "Initial" \notin SeqToSet(snaps)

\* run: `with self.mount_disk(disk=d, readonly=False, ctx=ctx) as disk_info`
\* up to the yield, and entering mount_partitions_and_filesystems
MountDisk ==
    /\ pc = "mount_disk"
    /\ LET t == <<ModifyReadOnly, cur>>
           info == DiskInfo(ModifyReadOnly, ~ModifyReadOnly /\ WritesReachImage(snapshots),
                            VirtualLayout(images[cur], built[cur]))
           hooks == MountDiskHooks(info)
       IN  \E mount_ok \in BOOLEAN : \E r \in 0..Len(hooks) :
            /\ tag' = t
            /\ IF ~mount_ok
               THEN /\ r = 0
                    /\ held' = held \cup {Token("vtmpdir", t, 0)}
                    /\ frames' = Append(frames, Frame("vdisk", t))
                    /\ pc' = "raise"
                    /\ UNCHANGED <<infos, requests, hook_log, opened_rw, image_written>>
               ELSE /\ held' = held \cup {Token("vtmpdir", t, 0), Token("vmount", t, 0)}
                    /\ infos' = [infos EXCEPT ![t] = info]
                    /\ requests' = requests \cup {Request("vmount", info, ModifyReadOnly)}
                    /\ opened_rw' = IF ModifyReadOnly THEN opened_rw ELSE opened_rw \cup {cur}
                    /\ hook_log' = Dispatched(hooks, r)
                    /\ image_written' =
                        (image_written \/ HooksWrite(Dispatched(hooks, r), info.image_rw))
                    /\ frames' = IF r = 0
                                 THEN frames \o <<Frame("vdisk", t), Frame("parts", t)>>
                                 ELSE Append(frames, Frame("vdisk", t))
                    /\ pc' = AfterHooks(r, PartitionsOrWalk(t, info, 1))
    /\ mount_log' = <<>>
    /\ part_idx' = 1
    /\ idx' = 1
    /\ UNCHANGED <<cur, mount_contexts, result>>
    /\ UNCHANGED <<built, vm_written, snapshots, vm_state, fails>>
    /\ UNCHANGED <<unmount_log, release_log, processed_rw, returned, promoted,
                   ctx_exiting>>
    /\ UNCHANGED <<bvars, ivars>>

\* the finally of mount_disk, and the next iteration of `for d in ctx.vm.disks`
ExitVdisk ==
    /\ Unwinding
    /\ frames # <<>>
    /\ Top(frames).kind = "vdisk"
    /\ LET t == Top(frames).tag
       IN  \E unmount_ok \in BOOLEAN :
            /\ IF ~infos[t].alive \/ Token("vmount", t, 0) \notin held
               THEN /\ unmount_ok
                    /\ UNCHANGED <<held, fails>>
               ELSE IF unmount_ok
               THEN /\ held' = held \ {Token("vmount", t, 0), Token("vtmpdir", t, 0)}
                    /\ fails' = fails
               ELSE /\ Budget > 0
                    /\ fails' = fails + 1
                    /\ held' = held
            /\ infos' = [infos EXCEPT ![t] = NoDisk]
            /\ release_log' = Append(release_log, <<"vdisk", t>>)
            /\ IF pc = "leave_rw" /\ unmount_ok
               THEN /\ processed_rw' = processed_rw \cup {cur}
                    /\ IF cur < Len(images)
                       THEN /\ cur' = cur + 1
                            /\ pc' = "mount_disk"
                       ELSE /\ cur' = cur
                            /\ pc' = NextStatement("modify_disks")
               ELSE /\ pc' = "raise"
                    /\ UNCHANGED <<cur, processed_rw>>
    /\ frames' = Pop(frames)
    /\ hook_log' = <<>>
    /\ mount_log' = <<>>
    /\ unmount_log' = <<>>
    /\ UNCHANGED <<tag, part_idx, idx, mount_contexts, result>>
    /\ UNCHANGED <<built, vm_written, snapshots, vm_state, image_written>>
    /\ UNCHANGED <<requests, opened_rw, returned, promoted, ctx_exiting>>
    /\ UNCHANGED <<bvars, ivars>>

\* run: `if ctx.options.start_vm: ctx.vm.start()`
StartVm ==
    /\ pc = "start_vm"
    /\ \E option \in BOOLEAN : \E ok \in BOOLEAN :
        /\ start_vm' = IF option THEN "set" ELSE "unset"
        /\ IF ~option
           THEN /\ ok
                /\ pc' = "leave_ctx"
                /\ vm_state' = vm_state
           ELSE IF ok
           THEN /\ vm_state' = "running"
                /\ pc' = "poll"
           ELSE /\ vm_state' = vm_state
                /\ pc' = "raise"
    /\ UNCHANGED <<cur, tag, part_idx, idx, frames, mount_contexts, result>>
    /\ UNCHANGED <<infos, built, vm_written, snapshots>>
    /\ UNCHANGED <<images, otf, pvars, paths, backend, out_dir, builder_made, raised, shadow,
                   um, dinfo, efi, created>>
    /\ UNCHANGED <<bvars, hvars, lvars>>

\* run: `while ctx.vm.is_running(): time.sleep(5)`
Poll ==
    /\ pc = "poll"
    /\ \E out \in {"running", "stopped", "raises"} :
        /\ vm_state' = IF out = "stopped" THEN "finished" ELSE vm_state
        /\ pc' = CASE out = "running" -> "poll"
                   [] out = "stopped" -> "leave_ctx"
                   [] OTHER -> "raise"
    /\ UNCHANGED <<cur, tag, part_idx, idx, frames, mount_contexts, result>>
    /\ UNCHANGED <<infos, built, vm_written, snapshots>>
    /\ UNCHANGED <<bvars, ivars, hvars, lvars>>

\* leaving `with ctx.mount_contexts`: the stacks entered by pop_all are unwound
ExitCtx ==
    /\ Unwinding
    /\ frames # <<>>
    /\ Top(frames).kind = "ctx"
    /\ ~ctx_exiting
    /\ ctx_exiting' = TRUE
    /\ frames' = frames \o UnwindOrder(mount_contexts)
    /\ mount_contexts' = <<>>
    /\ UNCHANGED <<pc, cur, tag, part_idx, idx, result>>
    /\ UNCHANGED <<requests, hook_log, mount_log, unmount_log, release_log, opened_rw,
                   processed_rw, returned, promoted>>
    /\ UNCHANGED <<bvars, ivars, ovars, hvars>>

\* run returns, or the exception leaves run
Return ==
    /\ Unwinding
    /\ frames # <<>>
    /\ Top(frames).kind = "ctx"
    /\ ctx_exiting
    /\ frames' = <<>>
    /\ result' = IF pc = "raise" THEN "error" ELSE "ok"
    /\ pc' = "exited"
    /\ UNCHANGED <<cur, tag, part_idx, idx, mount_contexts>>
    /\ UNCHANGED <<bvars, ivars, ovars, hvars, lvars>>

(***************************************************************************)
(* EtcShadowBlankPasswords.  A line of /etc/shadow is the sequence of its  *)
(* fields, what line.split(':') gives and ':'.join makes a line of again;  *)
(* the second field is the password field.                                 *)
(***************************************************************************)
\* password fields: empty, locked, a locked hash, a hash
PasswordFields == {"", "!", "*", "!$5$old", "$5$old"}

\* the lines of a file: accounts, and a line without a colon
ShadowLines ==
    { <<name, pw, "19000">> : name \in {"root"}, pw \in PasswordFields } \cup {<<"junk">>}

\* crypt.crypt(NEW_PASSWORD, crypt.METHOD_SHA256)
hash_password == "$5$new"

\* the body of the loop over the entries
ResetEntry(e) ==
    IF Len(e) >= 2 /\ e[2] \notin {"!", "*"} THEN [e EXCEPT ![2] = hash_password] ELSE e

NoShadow == [exists |-> FALSE, lines |-> <<>>, newline |-> FALSE, before |-> <<>>,
             modified |-> FALSE]

\* modify_filesystem: read_text().splitlines(), the loop, and write_text of the
\* lines joined by newlines (no newline after the last one)
modify_filesystem ==
    /\ ~shadow.modified
    /\ shadow' = IF shadow.exists
                 THEN [shadow EXCEPT !.lines = [i \in 1..Len(shadow.lines) |->
                                                    ResetEntry(shadow.lines[i])],
                                     !.newline = FALSE,
                                     !.before = shadow.lines,
                                     !.modified = TRUE]
                 ELSE [shadow EXCEPT !.modified = TRUE]
    /\ UNCHANGED <<bvars, images, otf, pvars, paths, backend, out_dir, builder_made, raised,
                   start_vm, um, dinfo, efi, created, cvars, ovars, hvars, lvars>>

(***************************************************************************)
(* The specifications.                                                     *)
(***************************************************************************)
(***************************************************************************)
(* PluginManager.                                                          *)
(***************************************************************************)
\* the plugins a caller may register
UserPlugins == {"plugin_a", "plugin_b", "plugin_c"}

\* the hooks the pipeline broadcasts
BroadcastHooks ==
    {"mounted_disk", "mounted_volume", "mounted_filesystem", "before_create_disk",
     "before_create_vm", "modify_disk", "modify_volume", "modify_filesystem"}

NoDispatch == [hook |-> "none", user |-> <<>>, calls |-> <<>>, raised |-> FALSE]

\* the hooks dispatched until one gives a result
ResultHooks == {"mount", "unmount_filesystem", "unmount_volume"}

\* what a hook gives back: `mount` gives None, a Path, a non-empty list of
\* volumes (or one VolumeInfo) or an empty list; the unmount hooks give a bool;
\* "raise": the hook raises instead
HookResults(name) ==
    IF name = "mount" THEN {"None", "Path", "volumes", "empty_list", "raise"}
    ELSE {"False", "True", "raise"}

\* bool(res) of Python
Truthy(res) == res \in {"Path", "volumes", "True"}

NoUntil == [hook |-> "none", user |-> <<>>, calls |-> <<>>, results |-> <<>>,
            value |-> "None"]

\* PluginManager() followed by _init_default_plugins
IdlePlugins ==
    /\ plugins = <<>>
    /\ fallback_plugins = <<"GenericMountPlugin", "LvmMountPlugin">>
    /\ last_dispatch = NoDispatch
    /\ last_until = NoUntil

\* the property all_plugins
all_plugins == plugins \o fallback_plugins

\* PluginManager.add(p)
add(p) ==
    /\ Len(plugins) < MaxPlugins
    /\ p \notin SeqToSet(plugins)
    /\ plugins' = Append(plugins, p)
    /\ UNCHANGED <<fallback_plugins, last_dispatch, last_until, bvars, images, otf, paths, backend, svars, um, dinfo, efi, created,
                   cvars, ovars, hvars, lvars>>

\* PluginManager.dispatch_all(name): the loop calls the hook of each plugin of
\* all_plugins in turn; the hook of user plugin r raises (r = 0: none does; the
\* broadcast hooks of the fallback plugins are the empty ones of PluginSpec) and
\* the exception leaves the loop
dispatch_all(name) ==
    \E r \in 0..Len(plugins) :
        /\ last_dispatch' = [hook |-> name, user |-> plugins,
                             calls |-> Dispatched(all_plugins, r), raised |-> r # 0]
        /\ UNCHANGED <<plugins, fallback_plugins, last_until, bvars, images, otf, paths, backend, svars, um, dinfo, efi, created,
                       cvars, ovars, hvars, lvars>>

\* the loop of dispatch_until_result leaves at this result: `if res := cb(...):
\* return res`, or the exception of the hook
StopsAt(res) == Truthy(res) \/ res = "raise"

\* the loop of dispatch_until_result from plugin i on, res[j] being what the
\* hook of plugin j gives when it is called: the hooks called, what they gave,
\* and the value returned ("raise": the exception of a hook leaves the call)
RECURSIVE UntilResult(_, _, _)
UntilResult(ps, res, i) ==
    IF i > Len(ps) THEN [calls |-> <<>>, results |-> <<>>, value |-> "None"]
    ELSE IF StopsAt(res[i]) THEN [calls |-> <<ps[i]>>, results |-> <<res[i]>>,
                                  value |-> res[i]]
    ELSE LET rest == UntilResult(ps, res, i + 1)
         IN  [calls |-> <<ps[i]>> \o rest.calls, results |-> <<res[i]>> \o rest.results,
              value |-> rest.value]

\* PluginManager.dispatch_until_result(name)
dispatch_until_result(name) ==
    \E res \in [1..Len(all_plugins) -> HookResults(name)] :
        LET out == UntilResult(all_plugins, res, 1)
        IN  /\ last_until' = [hook |-> name, user |-> plugins, calls |-> out.calls,
                              results |-> out.results, value |-> out.value]
            /\ UNCHANGED <<plugins, fallback_plugins, last_dispatch, bvars, images, otf, paths, backend, svars, um, dinfo, efi, created,
                           cvars, ovars, hvars, lvars>>

(***************************************************************************)
(* An unmount hook call of unmount_partitions_and_filesystems: the plugin  *)
(* function that handles the volume, the command it runs, utils.retry      *)
(* around the command, and what teardown makes of the result.              *)
(***************************************************************************)
\* the plugin functions that run an unmount command
UnmountPlugins ==
    {"GenericMountPlugin.unmount_filesystem", "GenericMountPlugin.unmount_volume",
     "LvmMountPlugin.unmount_volume", "LuksMountPlugin.unmount_volume",
     "BitLockerMountPlugin.unmount_volume", "VeraCryptMountPlugin.unmount_volume"}

\* the hook a plugin function implements
HookOf(f) ==
    IF f = "GenericMountPlugin.unmount_filesystem" THEN "unmount_filesystem"
    ELSE "unmount_volume"

\* num of the retry decorator around the command of f: @retry(10, sleep=0.5)
\* in unmount_bitlocker, no decorator anywhere else
RetriesOf(f) == IF f = "BitLockerMountPlugin.unmount_volume" THEN 10 ELSE 0

\* f wraps its command in `try ... except DiskVmError` and returns False
Catches(f) ==
    f \in {"GenericMountPlugin.unmount_filesystem", "GenericMountPlugin.unmount_volume",
           "VeraCryptMountPlugin.unmount_volume"}

NoUnmount ==
    [plugin |-> "none", busy |-> 0, left |-> 0, i |-> 0, tries |-> 0, sleeps |-> 0,
     status |-> "idle", field_set |-> TRUE]

\* teardown dispatches the hook on a mounted volume and plugin f handles it; the
\* command of f fails busy times ("target is busy") before it succeeds
CallUnmount(f, busy) ==
    /\ um.status \in {"idle", "done"}
    /\ um' = [plugin |-> f, busy |-> busy, left |-> busy, i |-> RetriesOf(f), tries |-> 0,
              sleeps |-> 0, status |-> "try", field_set |-> TRUE]
    /\ UNCHANGED <<bvars, images, otf, pvars, paths, backend, svars, dinfo, efi, created,
                   cvars, ovars, hvars, lvars>>

\* one pass of `for i in reversed(range(1 + num)): try: return func()`: the
\* command runs; when it fails, `if i == 0: raise`, and the plugin function
\* either catches the DiskVmError and returns False or lets it go
RunUnmountCommand ==
    /\ um.status = "try"
    /\ um' = [um EXCEPT !.tries = @ + 1,
                        !.left = IF @ = 0 THEN 0 ELSE @ - 1,
                        !.status = IF um.left = 0 THEN "True"
                                   ELSE IF um.i # 0 THEN "sleep"
                                   ELSE IF Catches(um.plugin) THEN "False"
                                   ELSE "DiskVmError"]
    /\ UNCHANGED <<bvars, images, otf, pvars, paths, backend, svars, dinfo, efi, created,
                   cvars, ovars, hvars, lvars>>

\* `else: time.sleep(sleep)` and the next value of i
RetrySleep ==
    /\ um.status = "sleep"
    /\ um' = [um EXCEPT !.sleeps = @ + 1, !.i = @ - 1, !.status = "try"]
    /\ UNCHANGED <<bvars, images, otf, pvars, paths, backend, svars, dinfo, efi, created,
                   cvars, ovars, hvars, lvars>>

\* teardown takes the result: a truthy result clears the field of the volume,
\* a falsy one or a DiskVmError is logged and leaves it set
TakeUnmountResult ==
    /\ um.status \in {"True", "False", "DiskVmError"}
    /\ um' = [um EXCEPT !.field_set = (um.status # "True"), !.status = "done"]
    /\ UNCHANGED <<bvars, images, otf, pvars, paths, backend, svars, dinfo, efi, created,
                   cvars, ovars, hvars, lvars>>

(***************************************************************************)
(* before_create_disk of the on-the-fly-decrypt plugins, on a DiskInfo     *)
(* whose volumes carry offset and size.  A partition holds no container, a *)
(* LUKS container (locked or unlocked), an unlocked BitLocker container, or *)
(* an LVM physical volume whose logical volume is an unlocked LUKS         *)
(* container.                                                              *)
(***************************************************************************)
\* sectors a LUKS container keeps for its header: the plaintext device is that
\* much shorter than the container and starts that far into it
LuksHeader == 1

\* sectors a physical volume keeps in front of its logical volume
LvmHeader == 1

OverlayContents == {"none", "luks_locked", "luks", "bitlocker", "lvm_luks"}

\* the least size of a partition that holds content c
MinSize(c) ==
    CASE c = "lvm_luks" -> LvmHeader + LuksHeader + 1
      [] c \in {"luks", "luks_locked"} -> LuksHeader + 1
      [] OTHER -> 1

\* the partition tables: one or two partitions behind the table in sector 0
PartitionTables ==
    LET Entries == { e \in [offset : 1..MaxOffset, size : 1..MaxOffset, content : OverlayContents] :
                        /\ e.offset + e.size <= MaxOffset
                        /\ e.size >= MinSize(e.content) }
    IN  { <<e>> : e \in Entries }
            \cup { t \in Entries \X Entries : t[1].offset + t[1].size <= t[2].offset }

\* the container type a plugin's mounted_volume marks on a volume:
\* additional_info[plugin]['enabled']
EnabledOf(content) ==
    CASE content \in {"luks", "luks_locked"} -> "luks"
      [] content = "bitlocker" -> "bitlocker"
      [] OTHER -> "none"

\* a volume of the overlay model: `at` is where its first byte lies on the
\* disk, `offset` and `size` are the fields of VolumeInfo
OverlayVolume(flat_mount, parent, offset, size, at, content, mounted) ==
    [flat_mount |-> flat_mount, parent |-> parent, offset |-> offset, size |-> size,
     at |-> at, content |-> content, enabled |-> EnabledOf(content), mounted |-> mounted]

\* _add_partition_info: offset and size from the partition table
PartitionVolume(e) ==
    OverlayVolume("loop", 0, e.offset, e.size, e.offset, e.content, "none")

\* what `mount` yields for volume i: the unlocked device of a container or the
\* logical volume of a group.  The plugins leave offset at its default 0;
\* _mount_filesystems sets size to size_blockdevice(flat_mount)
MountedChildren(vols, i) ==
    LET v == vols[i]
    IN  CASE v.content = "luks" ->
                <<OverlayVolume("plain", i, 0, v.size - LuksHeader, v.at + LuksHeader,
                                "none", "luks")>>
          [] v.content = "bitlocker" ->
                <<OverlayVolume("plain", i, 0, v.size, v.at, "none", "bitlocker")>>
          [] v.content = "lvm_luks" ->
                <<OverlayVolume("lv", i, 0, v.size - LvmHeader, v.at + LvmHeader,
                                "luks", "none")>>
          [] OTHER -> <<>>

\* disk_info.volumes after the walk of _mount_filesystems from volume i on
RECURSIVE MountWalk(_, _)
MountWalk(vols, i) ==
    IF i > Len(vols) THEN vols ELSE MountWalk(vols \o MountedChildren(vols, i), i + 1)

RECURSIVE PartitionVolumes(_)
PartitionVolumes(table) ==
    IF table = <<>> THEN <<>>
    ELSE <<PartitionVolume(Head(table))>> \o PartitionVolumes(Tail(table))

NoOverlay == [volumes |-> <<>>, keep_mounted |-> FALSE, called |-> "none", raised |-> FALSE]

OverlayPlugins == {"luks", "bitlocker"}

\* the `continue` test of the loop of before_create_disk
Skipped(vols, v, plugin) ==
    \/ vols[v].mounted # plugin
    \/ vols[vols[v].parent].enabled # plugin

\* the VirtualDiskPart before_create_disk builds for volume v
OverlayPart(vols, v) ==
    VirtualDiskPart(vols[v].flat_mount, vols[v].size, 0, vols[vols[v].parent].offset)

\* the parts of the add_part calls of the loop, from volume v on
RECURSIVE OverlayParts(_, _, _)
OverlayParts(vols, v, plugin) ==
    IF v > Len(vols) THEN <<>>
    ELSE (IF Skipped(vols, v, plugin) THEN <<>> ELSE <<OverlayPart(vols, v)>>)
            \o OverlayParts(vols, v + 1, plugin)

\* the calls add_part accepts before one raises
RECURSIVE AcceptedParts(_, _)
AcceptedParts(parts, ssize) ==
    IF parts = <<>> \/ AddPartCheck(Head(parts), ssize) # "ok" THEN <<>>
    ELSE <<Head(parts)>> \o AcceptedParts(Tail(parts), ssize)

\* LuksOnTheFlyDecryptPlugin.before_create_disk and its BitLocker twin
before_create_disk(plugin) ==
    /\ dinfo.volumes # <<>>
    /\ dinfo.called = "none"
    /\ LET parts == OverlayParts(dinfo.volumes, 1, plugin)
           accepted == AcceptedParts(parts, sector_size)
       IN  /\ disk_parts' = AddAll(disk_parts, accepted)
           /\ added' = added \o accepted
           /\ dinfo' = [dinfo EXCEPT !.keep_mounted = (accepted # <<>>),
                                     !.called = plugin,
                                     !.raised = (accepted # parts)]
    /\ UNCHANGED <<sector_size, prev_parts, last_part, last_result>>
    /\ UNCHANGED <<images, otf, pvars, paths, backend, svars, um, efi, created, cvars, ovars,
                   hvars, lvars>>

(***************************************************************************)
(* The descriptor files of a creation: the extent lines VmdkBuilder.write  *)
(* makes of disk_parts, and the rtc.starttime line of the .vmx.  The VM is *)
(* created, out_dir removed, and the VM created again from the same disk.  *)
(***************************************************************************)
\* the names random.choices (luks-XXXXXXXXXX under /dev/mapper) and mkdtemp
\* (the directory of dislocker-file) can come up with
DeviceNames == {"name_a", "name_b"}

\* the path written for a source file: the image under its own path, the
\* plaintext device under the name drawn in this run
WrittenPath(source_file, name) == IF source_file = "plain" THEN name ELSE source_file

\* the extent lines of VmdkBuilder.write from part i on, current_sector being
\* the sectors written so far
RECURSIVE ExtentLines(_, _, _, _, _)
ExtentLines(parts, i, current_sector, ssize, name) ==
    IF i > Len(parts) THEN <<>>
    ELSE LET p == parts[i]
             pad == IF current_sector * ssize # p.target_offset
                    THEN (p.target_offset \div ssize) - current_sector ELSE 0
             zero == IF current_sector * ssize # p.target_offset
                     THEN <<[sectors |-> pad, kind |-> "ZERO", path |-> "", offset |-> 0]>>
                     ELSE <<>>
             line == IF p.source_file = None
                     THEN [sectors |-> p.length \div ssize, kind |-> "ZERO",
                           path |-> "", offset |-> 0]
                     ELSE [sectors |-> p.length \div ssize, kind |-> "FLAT",
                           path |-> WrittenPath(p.source_file, name),
                           offset |-> p.source_offset \div ssize]
         IN  zero \o <<line>>
                \o ExtentLines(parts, i + 1, current_sector + pad + (p.length \div ssize),
                               ssize, name)

\* the add_part calls of the registered plugins, in registration order
RECURSIVE PluginParts(_, _)
PluginParts(vols, config) ==
    IF config = <<>> THEN <<>>
    ELSE AcceptedParts(OverlayParts(vols, 1, Head(config)), sector_size)
            \o PluginParts(vols, Tail(config))

\* the registrations of on-the-fly-decrypt plugins
OverlayConfigs == {<<>>, <<"luks">>, <<"bitlocker">>, <<"luks", "bitlocker">>}

NoneCreated == [config |-> <<>>, files |-> <<>>]

\* VmdkBuilder.write(out_dir); inside: the source files that lie under out_dir.
\* For such a file `p = p.source_file.relative_to(out_dir)` rebinds the loop
\* variable to a path, and p.source_offset in the extent line raises
\* AttributeError
VmdkWrite(parts, ssize, inside) ==
    IF \E i \in 1..Len(parts) : parts[i].source_file \in inside
    THEN [error |-> "AttributeError", extents |-> <<>>]
    ELSE [error |-> "none", extents |-> ExtentLines(parts, 1, 0, ssize, "plain")]

\* one call of write on the builder, which takes no part afterwards
write(inside) ==
    /\ created = NoneCreated
    /\ LET w == VmdkWrite(disk_parts, sector_size, inside)
       IN  created' = [created EXCEPT !.files =
                        <<[parts |-> disk_parts, error |-> w.error, extents |-> w.extents]>>]
    /\ UNCHANGED <<bvars, images, otf, pvars, paths, backend, svars, um, dinfo, efi, cvars,
                   ovars, hvars, lvars>>

\* _add_virtual_disk: new_disk, sector_size, and add_part of the extent of the
\* whole image; size is size_blockdevice(disk_image), ssize is
\* disk_info.sector_size
AddWholeImage(size, ssize) ==
    /\ last_result = "none"
    /\ Len(built) < MaxDisks
    /\ LET part == VirtualDiskPart("img", size, 0, 0)
       IN  /\ sector_size' = ssize
           /\ prev_parts' = <<>>
           /\ last_part' = part
           /\ last_result' = AddPartCheck(part, ssize)
           /\ disk_parts' = IF AddPartCheck(part, ssize) = "ok"
                            THEN AddPartResult(<<>>, part) ELSE <<>>
    /\ UNCHANGED <<added, ivars, cvars, ovars, hvars, lvars>>

\* _add_virtual_disk when no plugin adds a part in before_create_disk:
\* ctx.vm_builder.add_disk(disk_builder); the next image gets a new builder
AttachDisk ==
    /\ last_result = "ok"
    /\ built' = Append(built, [image_size |-> last_part.length, sector_size |-> sector_size,
                               disk_parts |-> disk_parts])
    /\ disk_parts' = <<>>
    /\ prev_parts' = <<>>
    /\ last_part' = NoPart
    /\ last_result' = "none"
    /\ UNCHANGED <<sector_size, added, ivars, cvars, hvars, lvars>>
    /\ UNCHANGED <<infos, vm_written, snapshots, vm_state>>

\* PluginManager.add of the on-the-fly-decrypt plugins, before the first creation
RegisterOverlays(config) ==
    /\ created = NoneCreated
    /\ config # <<>>
    /\ created' = [created EXCEPT !.config = config]
    /\ UNCHANGED <<bvars, images, otf, pvars, paths, backend, svars, um, dinfo, efi, cvars,
                   ovars, hvars, lvars>>

\* one creation of the VM from the disk: the builder takes the whole image,
\* the plugins add their overlays, the descriptors are written; the clock has
\* moved on since the creation before
CreateVm ==
    /\ dinfo.volumes # <<>>
    /\ Len(created.files) < MaxCreations
    /\ \E name \in DeviceNames :
        LET parts == AddAll(disk_parts, PluginParts(dinfo.volumes, created.config))
            file == [rtc_starttime |-> Len(created.files) + 1,
                     extents |-> ExtentLines(parts, 1, 0, sector_size, name)]
        IN  created' = [created EXCEPT !.files = Append(@, file)]
    /\ UNCHANGED <<bvars, images, otf, pvars, paths, backend, svars, um, dinfo, efi, cvars,
                   ovars, hvars, lvars>>

(***************************************************************************)
(* DetectEfiPlugin, and the firmware line VmwareVirtualMachineBuilder      *)
(* writes.  A disk is its partition scheme and the volume_type of each of  *)
(* its partitions: the type GUID on a GPT disk, the type byte on an MBR    *)
(* disk.                                                                   *)
(***************************************************************************)
TYPE_EFI_SYSTEM_PARTITION_GPT == "C12A7328-F81F-11D2-BA4B-00A0C93EC93B"

\* the type byte, written as the source writes it
TYPE_EFI_SYSTEM_PARTITION_MBR == "0xEF"

\* the partition types of the model: the two ESP types, the GUID of a basic
\* data partition and the byte of a Linux partition
GptTypes == {TYPE_EFI_SYSTEM_PARTITION_GPT, "EBD0A0A2-B9E5-4433-87C0-68B6B72699C7"}

MbrTypes == {TYPE_EFI_SYSTEM_PARTITION_MBR, "0x83"}

\* the partition tables with up to MaxPartitions partitions
TypeLists(types) == UNION { [1..n -> types] : n \in 0..MaxPartitions }

EfiDisks ==
    { [partition_scheme |-> "gpt", types |-> ts] : ts \in TypeLists(GptTypes) }
        \cup { [partition_scheme |-> "mbr", types |-> ts] : ts \in TypeLists(MbrTypes) }
        \cup { [partition_scheme |-> "unknown", types |-> <<>>] }

\* FirmwareType, and None for an option that is not set
FirmwareTypes == {"bios", "efi"}

\* variant of is_efi_system_partition: only GPT disks are looked at
is_efi_system_partition_gpt(scheme, volume_type) ==
    scheme = "gpt" /\ volume_type = TYPE_EFI_SYSTEM_PARTITION_GPT

is_efi_system_partition(scheme, volume_type) ==
    \/ scheme = "gpt" /\ volume_type = TYPE_EFI_SYSTEM_PARTITION_GPT
    \/ scheme = "mbr" /\ volume_type = TYPE_EFI_SYSTEM_PARTITION_MBR

NoEfi == [disks |-> <<>>, option |-> None, cur |-> 0, is_efi |-> FALSE, firmware |-> None,
          written |-> "none"]

\* _create_vm up to the loop over the disks: the builder takes options.firmware
CreateBuilder ==
    /\ efi.cur = 0
    /\ efi.disks # <<>>
    /\ efi' = [efi EXCEPT !.firmware = efi.option, !.cur = 1]
    /\ UNCHANGED <<bvars, images, otf, pvars, paths, backend, svars, um, dinfo, created,
                   cvars, ovars, hvars, lvars>>

\* DetectEfiPlugin.before_create_disk on the next analysed disk
DetectEfi ==
    /\ efi.cur \in 1..Len(efi.disks)
    /\ LET d == efi.disks[efi.cur]
           found == \E i \in 1..Len(d.types) :
                        is_efi_system_partition(d.partition_scheme, d.types[i])
       IN  efi' = [efi EXCEPT !.is_efi = (@ \/ found), !.cur = @ + 1]
    /\ UNCHANGED <<bvars, images, otf, pvars, paths, backend, svars, um, dinfo, created,
                   cvars, ovars, hvars, lvars>>

\* the firmware line of the .vmx: `(self.firmware or FirmwareType.EFI).value`
WrittenFirmware(firmware) == IF firmware = None THEN "efi" ELSE firmware

\* DetectEfiPlugin.before_create_vm (Vmware is the only VirtualizationSoftware
\* there is) and VmwareVirtualMachineBuilder.write
WriteFirmware ==
    /\ efi.cur = Len(efi.disks) + 1
    /\ efi.written = "none"
    /\ LET fw == IF efi.is_efi THEN "efi" ELSE "bios"
       IN  efi' = [efi EXCEPT !.firmware = fw, !.written = WrittenFirmware(fw)]
    /\ UNCHANGED <<bvars, images, otf, pvars, paths, backend, svars, um, dinfo, created,
                   cvars, ovars, hvars, lvars>>

vars == <<bvars, rvars>>

\* the builder outside a run
IdleBuilder ==
    /\ disk_parts = <<>>
    /\ sector_size = 1
    /\ prev_parts = <<>>
    /\ last_part = NoPart
    /\ last_result = "none"
    /\ added = <<>>

\* the state of a run before its first statement
RunStart(first) ==
    /\ IdlePlugins
    /\ pc = first
    /\ cur = 1
    /\ tag = <<TRUE, 1>>
    /\ part_idx = 1
    /\ idx = 1
    /\ frames = <<>>
    /\ mount_contexts = <<>>
    /\ result = "running"
    /\ out_dir = FALSE
    /\ builder_made = FALSE
    /\ raised = "none"
    /\ start_vm = "unread"
    /\ um = NoUnmount
    /\ created = NoneCreated
    /\ infos = [t \in Tags |-> NoDisk]
    /\ built = <<>>
    /\ vm_written = FALSE
    /\ snapshots = <<>>
    /\ vm_state = "off"
    /\ held = {}
    /\ fails = 0
    /\ image_written = FALSE
    /\ requests = {}
    /\ hook_log = <<>>
    /\ mount_log = <<>>
    /\ unmount_log = <<>>
    /\ release_log = <<>>
    /\ opened_rw = {}
    /\ processed_rw = {}
    /\ returned = {}
    /\ promoted = [d \in Disks |-> {}]
    /\ ctx_exiting = FALSE

\* all_disk_images: 1..MaxDisks images, each with one of the layouts
ImageLists == UNION { [1..n -> DiskLayouts] : n \in Disks }

InitBuilder ==
    /\ disk_parts = <<>>
    /\ sector_size \in SectorSizes
    /\ prev_parts = <<>>
    /\ last_part = NoPart
    /\ last_result = "none"
    /\ added = <<>>
    /\ images = <<>>
    /\ otf = FALSE
    /\ paths = <<>>
    /\ backend = TRUE
    /\ dinfo = NoOverlay
    /\ efi = NoEfi
    /\ shadow = NoShadow
    /\ RunStart("no_run")

NextBuilder == \E part \in PartInputs : PartEnd(part) <= MaxOffset /\ add_part(part)

SpecBuilder == InitBuilder /\ [][NextBuilder]_vars

\* a builder that takes up to MaxParts valid parts and records them
NextSequence ==
    \/ \E part \in PartInputs : PartEnd(part) <= MaxOffset /\ add_valid_part(part)
    \/ add_same_part

SpecSequence == InitBuilder /\ [][NextSequence]_vars

\* a plugin manager on which plugins are registered and hooks are broadcast
NextPlugins ==
    \/ \E p \in UserPlugins : add(p)
    \/ \E name \in BroadcastHooks : dispatch_all(name)

SpecPlugins == InitBuilder /\ [][NextPlugins]_vars

\* a plugin manager on which plugins are registered and hooks are dispatched
\* until one gives a result
NextResult ==
    \/ \E p \in UserPlugins : add(p)
    \/ \E name \in ResultHooks : dispatch_until_result(name)

SpecResult == InitBuilder /\ [][NextResult]_vars

\* a builder that holds the whole image, and the DiskInfo of the image after the
\* mount walk
InitOverlay ==
    /\ disk_parts = <<VirtualDiskPart("img", MaxOffset, 0, 0)>>
    /\ sector_size = 1
    /\ prev_parts = <<>>
    /\ last_part = NoPart
    /\ last_result = "none"
    /\ added = <<>>
    /\ images = <<>>
    /\ otf = TRUE
    /\ paths = <<>>
    /\ backend = TRUE
    /\ dinfo \in { [NoOverlay EXCEPT !.volumes = MountWalk(PartitionVolumes(table), 1)] :
                        table \in PartitionTables }
    /\ efi = NoEfi
    /\ shadow = NoShadow
    /\ RunStart("no_run")

NextOverlay == \E plugin \in OverlayPlugins : before_create_disk(plugin)

SpecOverlay == InitOverlay /\ [][NextOverlay]_vars

\* a disk after the mount walk, its whole-image extent, and a registration of
\* on-the-fly-decrypt plugins
InitCreate ==
    /\ disk_parts = <<VirtualDiskPart("img", MaxOffset, 0, 0)>>
    /\ sector_size = 1
    /\ prev_parts = <<>>
    /\ last_part = NoPart
    /\ last_result = "none"
    /\ added = <<>>
    /\ images = <<>>
    /\ otf = TRUE
    /\ paths = <<>>
    /\ backend = TRUE
    /\ dinfo \in { [NoOverlay EXCEPT !.volumes = MountWalk(PartitionVolumes(table), 1)] :
                        table \in PartitionTables }
    /\ efi = NoEfi
    /\ shadow = NoShadow
    /\ RunStart("no_run")

NextCreate ==
    \/ \E config \in OverlayConfigs : RegisterOverlays(config)
    \/ CreateVm

SpecCreate == InitCreate /\ [][NextCreate]_vars

\* a builder that takes add_part calls and is then written
NextWrite ==
    \/ created = NoneCreated /\ NextBuilder
    \/ \E inside \in SUBSET ValidFiles : write(inside)

SpecWrite == InitBuilder /\ [][NextWrite]_vars

\* a mounted filesystem with or without an /etc/shadow of up to MaxEntries lines
InitShadow ==
    /\ IdleBuilder
    /\ images = <<>>
    /\ otf = FALSE
    /\ paths = <<>>
    /\ backend = TRUE
    /\ dinfo = NoOverlay
    /\ efi = NoEfi
    /\ shadow \in { [NoShadow EXCEPT !.exists = x, !.lines = ls, !.newline = nl] :
                        x \in BOOLEAN, nl \in BOOLEAN,
                        ls \in UNION { [1..n -> ShadowLines] : n \in 0..MaxEntries } }
    /\ (~shadow.exists => (shadow.lines = <<>> /\ ~shadow.newline))
    /\ RunStart("no_run")

SpecShadow == InitShadow /\ [][modify_filesystem]_vars

\* the builders of the input images, none of which gets an overlay
NextDisks ==
    \/ \E size \in 0..MaxOffset : \E ssize \in SectorSizes : AddWholeImage(size, ssize)
    \/ AttachDisk

SpecDisks == InitBuilder /\ [][NextDisks]_vars

\* one or two analysed disks and the firmware option of the user
InitEfi ==
    /\ IdleBuilder
    /\ images = <<>>
    /\ otf = FALSE
    /\ paths = <<>>
    /\ backend = TRUE
    /\ dinfo = NoOverlay
    /\ RunStart("no_run")
    /\ shadow = NoShadow
    /\ efi \in { [NoEfi EXCEPT !.disks = ds, !.option = o] :
                    ds \in UNION { [1..n -> EfiDisks] : n \in Disks },
                    o \in FirmwareTypes \cup {None} }

NextEfi ==
    \/ CreateBuilder
    \/ DetectEfi
    \/ WriteFirmware

SpecEfi == InitEfi /\ [][NextEfi]_vars

\* unmount hook calls whose command fails up to MaxBusy times in a row
NextUnmount ==
    \/ \E f \in UnmountPlugins : \E busy \in 0..MaxBusy : CallUnmount(f, busy)
    \/ RunUnmountCommand
    \/ RetrySleep
    \/ TakeUnmountResult

SpecUnmount == InitBuilder /\ [][NextUnmount]_vars

\* runs on images that are regular files or are missing
Init ==
    /\ IdleBuilder
    /\ images \in ImageLists
    /\ otf \in BOOLEAN
    /\ paths \in [1..Len(images) -> {"file", "missing"}]
    /\ backend \in BOOLEAN
    /\ dinfo = NoOverlay
    /\ efi = NoEfi
    /\ shadow = NoShadow
    /\ RunStart("validate")

Next ==
    \/ Validate
    \/ MountDiskImage
    \/ BeginVirtualDisk
    \/ AddPartitionInfo
    \/ MountVolume
    \/ BeforeCreateDisk
    \/ ExitParts
    \/ ExitImage
    \/ ExitMounts
    \/ WriteVm
    \/ SnapshotInitial
    \/ MountDisk
    \/ ExitVdisk
    \/ SnapshotFinished
    \/ StartVm
    \/ Poll
    \/ ExitCtx
    \/ Return

Spec == Init /\ [][Next]_vars

\* runs on images of one layout whose paths are of every kind
InitPaths ==
    /\ IdleBuilder
    /\ images \in { l \in ImageLists : \A i \in 1..Len(l) : l[i] = <<Crypt(Lvm(<<Raw, Fs>>))>> }
    /\ otf \in BOOLEAN
    /\ paths \in [1..Len(images) -> PathKinds]
    /\ backend \in BOOLEAN
    /\ dinfo = NoOverlay
    /\ efi = NoEfi
    /\ shadow = NoShadow
    /\ RunStart("validate")

SpecPaths == InitPaths /\ [][Next]_vars

(***************************************************************************)
(* Properties of the extent builder.                                       *)
(***************************************************************************)
Sorted(parts) ==
    \A i \in 1..Len(parts) - 1 : parts[i].target_offset <= parts[i + 1].target_offset

Covers(p, b) == p.target_offset <= b /\ b < PartEnd(p)

NoOverlap(parts) ==
    \A i, j \in 1..Len(parts) :
        i # j => ~ \E b \in 0..MaxOffset : Covers(parts[i], b) /\ Covers(parts[j], b)

Aligned(parts, ssize) ==
    \A i \in 1..Len(parts) :
        parts[i].target_offset % ssize = 0 /\ PartEnd(parts[i]) % ssize = 0

\* the (source_file, source byte) pairs that the extents of parts give target byte b
SourcesOf(parts, b) ==
    { <<parts[i].source_file, parts[i].source_offset + (b - parts[i].target_offset)>> :
        i \in { k \in 1..Len(parts) : Covers(parts[k], b) } }

\* C1: after any sequence of successful add_part calls, disk_parts is sorted by
\* target_offset, no two extents overlap, and every extent starts and ends on a
\* multiple of sector_size.
C1_SortedDisjointAligned ==
    /\ Sorted(disk_parts)
    /\ NoOverlap(disk_parts)
    /\ Aligned(disk_parts, sector_size)

\* C2: last write wins. After a successful add_part(new) every target byte of
\* new's range maps to new's source at the matching source byte, and every other
\* target byte maps as before the call (or stays unmapped).
C2_LastWriteWins ==
    last_result = "ok" =>
        \A b \in 0..MaxOffset :
            IF Covers(last_part, b)
            THEN SourcesOf(disk_parts, b) =
                    {<<last_part.source_file,
                       last_part.source_offset + (b - last_part.target_offset)>>}
            ELSE SourcesOf(disk_parts, b) = SourcesOf(prev_parts, b)

(***************************************************************************)
(* Properties of DiskVmCreator.run.                                        *)
(***************************************************************************)
ReadOnlyTag(d) == <<TRUE, d>>

AllDisks == 1..Len(images)

\* C3: a disk opened read-only is never written: its bind mount, its loop
\* devices, its filesystem mounts and its container unlocks are all requested
\* read-only, and no write reaches the bytes of an input image.
C3_ReadOnlyAnalysis ==
    /\ \A r \in requests :
        (r[2] /\ r[1] \in {"bind", "loop", "fs", "unlock"}) => r[3]
    /\ ~image_written

C3_Witness ==
    /\ pc = "exited"
    /\ result = "ok"
    /\ \A k \in {"bind", "loop", "fs", "unlock"} : <<k, TRUE, TRUE>> \in requests

\* C4: in unmount_partitions_and_filesystems every unmount attempt on a volume
\* comes before every unmount attempt on the volume's parent.
C4_ChildrenBeforeParents ==
    \A i, j \in 1..Len(unmount_log) :
        unmount_log[i].parent = unmount_log[j].v => i < j

\* partition -> unlocked container -> two logical volumes, all attempted
C4_Witness ==
    \E i, i2, j, k \in 1..Len(unmount_log) :
        /\ i < i2 /\ i2 < j /\ j < k
        /\ unmount_log[i].v # unmount_log[i2].v
        /\ unmount_log[i].parent = unmount_log[i2].parent
        /\ unmount_log[i].parent # 0
        /\ unmount_log[i].parent = unmount_log[j].v
        /\ unmount_log[j].parent = unmount_log[k].v
        /\ unmount_log[k].parent = 0

\* C5: on every exit path of run, every resource the run acquired has been
\* released (stated here for the runs in which no unmount command failed).
C5_AllReleased == (pc = "exited" /\ fails = 0) => held = {}

\* C6: snapshot "Initial" comes after the VM is written and before any disk is
\* opened writable or any modify_* hook runs; snapshot "InitFinished" comes after
\* every virtual disk was opened writable, processed and unmounted, and before
\* the VM is started.
C6_SnapshotOrder ==
    /\ snapshots \in {<<>>, <<"Initial">>, <<"Initial", "InitFinished">>}
    /\ snapshots # <<>> => vm_written
    /\ (opened_rw # {} \/ \E i \in 1..Len(hook_log) : hook_log[i].hook \in ModifyHooks)
            => "Initial" \in SeqToSet(snapshots)
    /\ "InitFinished" \in SeqToSet(snapshots) =>
            /\ opened_rw = AllDisks
            /\ processed_rw = AllDisks
            /\ \A d \in AllDisks : Token("vmount", <<FALSE, d>>, 0) \notin held
    /\ vm_state # "off" => "InitFinished" \in SeqToSet(snapshots)

C6_Witness ==
    /\ vm_state = "finished"
    /\ snapshots = <<"Initial", "InitFinished">>
    /\ Len(images) = MaxDisks

MountedHookOf(hook) ==
    CASE hook = "modify_disk" -> "mounted_disk"
      [] hook = "modify_volume" -> "mounted_volume"
      [] hook = "modify_filesystem" -> "mounted_filesystem"

\* C7: modify_disk, modify_volume and modify_filesystem are dispatched only for
\* a DiskInfo that is not read-only, and each after the mounted_* hook of the
\* same object.
C7_ModifyOnlyWritable ==
    \A i \in 1..Len(hook_log) :
        hook_log[i].hook \in ModifyHooks =>
            /\ ~hook_log[i].readonly
            /\ \E j \in 1..(i - 1) :
                /\ hook_log[j].hook = MountedHookOf(hook_log[i].hook)
                /\ hook_log[j].obj = hook_log[i].obj

C7_Witness ==
    \A h \in ModifyHooks : \E i \in 1..Len(hook_log) : hook_log[i].hook = h

\* C8 as stated: no virtual disk is opened writable until the analysis of every
\* input disk has completed and the read-only mount of every original image has
\* been unmounted.
C8_ImagesUnmountedBeforeWritable ==
    opened_rw # {} =>
        /\ returned = AllDisks
        /\ \A d \in AllDisks : Token("bind", ReadOnlyTag(d), 0) \notin held

\* C8, amended: no virtual disk is opened writable until the analysis of every
\* input disk has completed; by then the read-only mount of an original image
\* has been unmounted unless keep_mounted was set on its disk, in which case it
\* stays mounted until the run ends.
C8_ImagesUnmountedUnlessKept ==
    opened_rw # {} =>
        /\ returned = AllDisks
        /\ \A d \in AllDisks :
            Token("bind", ReadOnlyTag(d), 0) \in held => promoted[d] # {}

C8_Witness ==
    /\ opened_rw # {}
    /\ \E d \in AllDisks :
        promoted[d] # {} /\ Token("bind", ReadOnlyTag(d), 0) \in held
    /\ \E d \in AllDisks :
        promoted[d] = {} /\ Token("bind", ReadOnlyTag(d), 0) \notin held

ReleaseCount(kind, t) ==
    Cardinality({ i \in 1..Len(release_log) : release_log[i] = <<kind, t>> })

Retained(e) == e[2][1] /\ promoted[e[2][2]] # {}

\* C10: when ctx.mount_contexts exits, normally or by an exception, the retained
\* mounts are released in reverse acquisition order: those of a later disk
\* before those of an earlier one, and within a disk the partition, volume and
\* filesystem mounts before the image bind mount.
C10_ReverseRelease ==
    \A i, j \in 1..Len(release_log) :
        (i < j /\ Retained(release_log[i]) /\ Retained(release_log[j])) =>
            /\ release_log[i][2][2] >= release_log[j][2][2]
            /\ release_log[i][2][2] = release_log[j][2][2] =>
                    (release_log[i][1] = "parts" /\ release_log[j][1] = "image")

C10_Witness ==
    /\ pc = "exited"
    /\ result = "error"
    /\ \A d \in 1..2 :
        /\ d \in returned
        /\ promoted[d] # {}
        /\ ReleaseCount("image", ReadOnlyTag(d)) = 1

\* the walk of _mount_filesystems over the DiskInfo of tag is over
WalkEnded == pc \in {"before_create_disk", "leave_rw"} /\ infos[tag].alive

\* C11: _mount_filesystems dispatches `mount` exactly once for every volume
\* (with a flat_mount) that is in disk.volumes when the walk ends, the appended
\* ones included, in list order; each volume is visited after its parent and
\* the depth never decreases along the walk.
C11_MountWalk ==
    /\ \A i \in 1..Len(mount_log) : mount_log[i] = i
    /\ Len(mount_log) <= Len(infos[tag].volumes)
    /\ WalkEnded => Len(mount_log) = Len(infos[tag].volumes)
    /\ \A i \in 1..Len(mount_log) :
        LET u == infos[tag].volumes[mount_log[i]].parent
        IN  u # 0 => \E j \in 1..(i - 1) : mount_log[j] = u
    /\ \A i \in 1..(Len(mount_log) - 1) :
        volume_depth(infos[tag].volumes, mount_log[i])
            <= volume_depth(infos[tag].volumes, mount_log[i + 1])

\* a walk that ended after it descended into a container and its volume group
C11_Witness ==
    /\ WalkEnded
    /\ Len(mount_log) = 4
    /\ volume_depth(infos[tag].volumes, 4) = 2

\* C12 as stated: the sequence in which teardown attempts to unmount the
\* volumes of a disk is exactly the reverse of the sequence in which they were
\* mounted (the order of disk.volumes), for the filesystems and for the
\* block-level volumes, depth d before depth d-1.
C12_StrictReverse ==
    \A i, j \in 1..Len(unmount_log) :
        (i < j /\ unmount_log[i].op = unmount_log[j].op) =>
            /\ unmount_log[i].depth >= unmount_log[j].depth
            /\ unmount_log[i].v > unmount_log[j].v

\* C12, amended: teardown reverses mounting depth by depth: all filesystems at
\* depth d are attempted before any at depth d-1 and all block-level volumes at
\* depth d before any at depth d-1; the volumes of one depth are attempted in
\* the order in which they were mounted.
C12_ReverseByDepth ==
    \A i, j \in 1..Len(unmount_log) :
        (i < j /\ unmount_log[i].op = unmount_log[j].op) =>
            /\ unmount_log[i].depth >= unmount_log[j].depth
            /\ unmount_log[i].depth = unmount_log[j].depth
                    => unmount_log[i].v < unmount_log[j].v

\* two volumes of one depth attempted after a deeper one
C12_Witness ==
    \E k, i, j \in 1..Len(unmount_log) :
        /\ k < i /\ i < j
        /\ unmount_log[k].op = "unmount_volume"
        /\ unmount_log[i].op = "unmount_volume"
        /\ unmount_log[j].op = "unmount_volume"
        /\ unmount_log[k].depth > unmount_log[i].depth
        /\ unmount_log[i].depth = unmount_log[j].depth

\* unmount_partitions_and_filesystems(infos[t]) has just returned
TornDown(t) ==
    /\ infos[t].alive
    /\ release_log # <<>>
    /\ release_log[Len(release_log)] = <<"parts", t>>

\* the field an attempt is about is still set
FieldSet(volumes, a) ==
    IF a.op = "unmount_filesystem" THEN volumes[a.v].filesystem_mount
                                   ELSE volumes[a.v].flat_mount

\* C13: a successful unmount hook clears the field of its volume; a hook that
\* reports failure or raises leaves the field set, and unmount is still
\* attempted for every remaining volume and mount of the disk: nothing that is
\* still mounted after the teardown was left unattempted.
C13_TeardownGoesOn ==
    \A t \in Tags : TornDown(t) =>
        /\ \A i \in 1..Len(unmount_log) :
            LET e == unmount_log[i]
            IN  IF e.ok THEN ~FieldSet(infos[t].volumes, e)
                ELSE FieldSet(infos[t].volumes, e)
        /\ \A i \in 1..Len(UnmountAttempts(infos[t].volumes)) :
            LET a == UnmountAttempts(infos[t].volumes)[i]
            IN  (FieldSet(infos[t].volumes, a) /\ TokenOf(t, infos[t].volumes, a) \in held)
                    => Logged(a, FALSE) \in SeqToSet(unmount_log)

\* a failed attempt followed by successful ones
C13_Witness ==
    \E t \in Tags : \E i, j \in 1..Len(unmount_log) :
        /\ TornDown(t)
        /\ i < j
        /\ ~unmount_log[i].ok
        /\ unmount_log[j].ok
        /\ FieldSet(infos[t].volumes, unmount_log[i])
        /\ ~FieldSet(infos[t].volumes, unmount_log[j])

Misaligned(part, ssize) == part.target_offset % ssize # 0 \/ PartEnd(part) % ssize # 0

Called == last_result # "none"

\* C14: add_part rejects with InvalidDiskPartError every part that is not
\* sector-aligned and every part whose source_file is neither None nor an
\* existing file or block device, and a rejected call leaves disk_parts as it was.
C14_RejectsInvalid ==
    Called =>
        /\ Misaligned(last_part, sector_size) => last_result = "InvalidDiskPartError"
        /\ last_part.source_file \notin ValidFiles \cup {None}
                => last_result = "InvalidDiskPartError"
        /\ last_result # "ok" => disk_parts = prev_parts

\* C15: add_part accepts a sector-aligned part whose source_file is None and
\* inserts it like any other extent.
C15_NullSourceAccepted ==
    (Called /\ last_part.source_file = None /\ ~Misaligned(last_part, sector_size)) =>
        /\ last_result = "ok"
        /\ disk_parts = AddPartResult(prev_parts, last_part)

\* new lies strictly inside p: p starts before new and ends after it
StrictlyInside(new, p) ==
    p.target_offset < new.target_offset /\ PartEnd(new) < PartEnd(p)

\* some target byte belongs to both p and q
Intersects(p, q) == \E b \in 0..MaxOffset : Covers(p, b) /\ Covers(q, b)

\* the positions of parts that hold new or an extent within p's range
InRangeOf(parts, p, new) ==
    { i \in 1..Len(parts) : parts[i] = new \/ Intersects(parts[i], p) }

HeadOf(p, new) == [p EXCEPT !.length = new.target_offset - p.target_offset]

TailOf(p, new) ==
    VirtualDiskPart(p.source_file, PartEnd(p) - PartEnd(new),
                    p.source_offset + (PartEnd(new) - p.target_offset), PartEnd(new))

\* C16: overlay split. When new lies strictly inside an existing extent p, a
\* successful add_part(new) leaves exactly three extents for p's range: p's head
\* up to new with p's source_offset, new, and p's tail from new's end with
\* source_offset p.source_offset + (new.end - p.start).
C16_OverlaySplit ==
    last_result = "ok" =>
        \A k \in 1..Len(prev_parts) :
            StrictlyInside(last_part, prev_parts[k]) =>
                LET p == prev_parts[k]
                    range == InRangeOf(disk_parts, p, last_part)
                IN  /\ Cardinality(range) = 3
                    /\ { disk_parts[i] : i \in range }
                            = {HeadOf(p, last_part), last_part, TailOf(p, last_part)}

\* p and new have the same target range
SameRange(p, new) ==
    p.target_offset = new.target_offset /\ p.length = new.length

\* C17: an add_part whose target range equals that of an existing extent
\* replaces that extent one for one: the list keeps its length, new stands where
\* the old extent stood, and every other extent is unchanged.
C17_ExactReplace ==
    last_result = "ok" =>
        \A k \in 1..Len(prev_parts) :
            SameRange(prev_parts[k], last_part) =>
                /\ Len(disk_parts) = Len(prev_parts)
                /\ disk_parts = [prev_parts EXCEPT ![k] = last_part]

\* the byte maps of two extent lists are equal: every target byte names the same
\* source bytes in both
SameMap(parts, others) ==
    \A b \in 0..MaxOffset : SourcesOf(parts, b) = SourcesOf(others, b)

\* no target byte belongs to two parts of the sequence
PairwiseDisjoint(seq) ==
    \A i, j \in 1..Len(seq) : i # j => ~Intersects(seq[i], seq[j])

\* C18 as stated: inserting valid extents in some order gives the same byte map
\* as inserting the same extents in the reverse order.
C18_AnyOrder == SameMap(disk_parts, AddAll(<<>>, Reverse(added)))

\* C18, amended: inserting valid extents whose target ranges are pairwise
\* disjoint in some order gives the same byte map as inserting them in the
\* reverse order.
C18_DisjointAnyOrder ==
    PairwiseDisjoint(added) => SameMap(disk_parts, AddAll(<<>>, Reverse(added)))

\* three disjoint non-empty extents, inserted neither in ascending nor in
\* descending order of target_offset
C18_Witness ==
    /\ Len(added) = 3
    /\ PairwiseDisjoint(added)
    /\ \A i \in 1..3 : added[i].length > 0
    /\ added[2].target_offset < added[1].target_offset
    /\ added[2].target_offset < added[3].target_offset
    /\ disk_parts # added /\ disk_parts # Reverse(added)

\* the recorded calls are add_part(A), add_part(B) and add_part(A) again, with
\* an equal part or with the very object of the first call
AddedAgain ==
    /\ Len(added) = 3
    /\ added[3] \in {added[1], ObjectAfter(added[1], added[2])}

\* C19 as stated: a builder that holds [A] and takes add_part(B), then
\* add_part(A) again has the byte map of add_part(A); add_part(B).
C19_AddAgain ==
    AddedAgain => SameMap(disk_parts, AddAll(<<>>, <<added[1], added[2]>>))

\* C19, amended: when A and B share no target byte, a builder that holds [A] and
\* takes add_part(B), then add_part(A) again has the byte map of add_part(A);
\* add_part(B).
C19_AddAgainDisjoint ==
    (AddedAgain /\ ~Intersects(added[1], added[2]))
        => SameMap(disk_parts, AddAll(<<>>, <<added[1], added[2]>>))

\* B lies before A and names another file; A has been added again
C19_Witness ==
    /\ AddedAgain
    /\ ~Intersects(added[1], added[2])
    /\ added[1].length > 0 /\ added[2].length > 0
    /\ added[2].target_offset < added[1].target_offset
    /\ added[1].source_file # added[2].source_file
    /\ Len(disk_parts) = 2

\* C20: dispatch_all invokes the named hook of every registered plugin exactly
\* once, in order: the user plugins in registration order, then
\* GenericMountPlugin, then LvmMountPlugin.
C20_BroadcastAll ==
    last_dispatch.hook # "none" =>
        last_dispatch.calls
            = last_dispatch.user \o <<"GenericMountPlugin", "LvmMountPlugin">>

\* what the claim calls a result: for `mount` anything but None; for the
\* unmount hooks a true value
Produces(name, res) ==
    IF name = "mount" THEN res \in {"Path", "volumes", "empty_list"} ELSE res = "True"

\* C21: dispatch_until_result invokes the hooks in plugin order; it stops at the
\* first hook whose result is non-null (`mount`) or truthy (unmount hooks) and
\* returns that result, invoking no later plugin; it returns None when no hook
\* produces one.  (A dispatch that a hook's exception ends returns nothing and
\* is not judged here.)
C21_FirstResult ==
    (last_until.hook # "none" /\ last_until.value # "raise") =>
        LET d == last_until
            full == d.user \o <<"GenericMountPlugin", "LvmMountPlugin">>
            n == Len(d.calls)
        IN  /\ n <= Len(full) /\ d.calls = SubSeq(full, 1, n)
            /\ \A i \in 1..n : Produces(d.hook, d.results[i]) => i = n /\ d.value = d.results[i]
            /\ (\A i \in 1..n : ~Produces(d.hook, d.results[i]))
                    => n = Len(full) /\ d.value = "None"

\* the step dispatches hooks and the last of them, a modify_* hook, raises: the
\* exception is pending after the step
ModifyHookAborts ==
    /\ hook_log' # hook_log
    /\ hook_log' # <<>>
    /\ hook_log'[Len(hook_log')].hook \in ModifyHooks
    /\ pc' = "raise"

\* C22: a failure raised inside a modify_disk / modify_volume /
\* modify_filesystem hook is swallowed: no step of the run ends with the
\* exception of a modify_* hook pending, so the run goes on to the remaining
\* volumes and to the "InitFinished" snapshot.
C22_ModifyFailureSwallowed == [][~ModifyHookAborts]_vars


(***************************************************************************)
(* C23.  Failures of the mount hook.                                       *)
(***************************************************************************)
\* a step of the walk in which the mount hook mounted nothing: no filesystem
\* mount was set, no volume was appended
MountCameToNothing ==
    /\ mount_log' # mount_log
    /\ mount_log' # <<>>
    /\ infos'[tag].volumes = infos[tag].volumes

\* C23: a mount hook that cannot mount a volume does not raise: it returns
\* null, what it created for the attempt (a temporary directory, a mapping, an
\* activated volume group) is released again, and the walk goes on with the
\* next volume.
C23_MountFailureReturnsNull ==
    [][MountCameToNothing =>
        /\ pc' # "raise"
        /\ held' = held
        /\ pc' = WalkOrAfter(tag, infos[tag].volumes, idx + 1)]_vars

(***************************************************************************)
(* C24.  Invalid input paths.                                              *)
(***************************************************************************)
\* some input path does not exist or is neither a regular file nor a block
\* device
SomeInvalidPath == \E i \in DOMAIN paths : paths[i] \in {"directory", "missing"}

\* run failed with InvalidDiskError and had done nothing yet
FailedBeforeAnything ==
    /\ result = "error"
    /\ raised = "InvalidDiskError"
    /\ ~out_dir
    /\ held = {}
    /\ requests = {}
    /\ hook_log = <<>>
    /\ ~builder_made

\* C24 as stated: if any input disk path (primary or additional) is invalid,
\* run fails with InvalidDisk before the output directory is created, before any
\* mount or loop device, before any hook and before a VM builder exists.
C24_InvalidDiskFirst ==
    (pc # "validate" /\ SomeInvalidPath) => FailedBeforeAnything

\* C24 amended: the same, provided the virtualization backend is available
\* (its check comes first and raises VirtualizationSoftwareNotAvailable).
C24_InvalidDiskAfterBackend ==
    (pc # "validate" /\ SomeInvalidPath /\ backend) => FailedBeforeAnything

\* run was given a valid primary image and an additional path that is a
\* directory, with the backend installed, and has ended
C24_Witness ==
    /\ pc = "exited"
    /\ backend
    /\ Len(paths) = 2
    /\ paths[1] = "block_device"
    /\ paths[2] = "directory"
    /\ raised = "InvalidDiskError"

(***************************************************************************)
(* C25, C26.  Retries of the unmount hooks.                                *)
(***************************************************************************)
\* the call is over and teardown has taken its result
UnmountDone(hook) ==
    /\ um.status = "done"
    /\ HookOf(um.plugin) = hook

\* a command that fails `busy` times in a row was retried up to 10 times with a
\* sleep before each retry, and the call failed only when the retries ran out
RodeOutBusy ==
    IF um.busy <= 10
    THEN um.tries = um.busy + 1 /\ um.sleeps = um.busy /\ ~um.field_set
    ELSE um.tries = 11 /\ um.sleeps = 10 /\ um.field_set

\* C25: a failed unmount_filesystem is retried up to 10 times with a 0.5 s
\* sleep between the attempts before it is reported as failed.
C25_FilesystemUnmountRetried ==
    UnmountDone("unmount_filesystem") => RodeOutBusy

\* C26: a volume unmount survives "device busy" for up to 10 x 0.5 s: it
\* succeeds when the underlying unmount starts succeeding within 10 retries;
\* when it keeps failing, the failure reaches teardown and flat_mount stays set.
C26_VolumeUnmountSurvivesBusy ==
    UnmountDone("unmount_volume") =>
        /\ um.busy <= 10 => ~um.field_set
        /\ um.busy > 10 => um.field_set /\ um.sleeps = 10

(***************************************************************************)
(* C27.  filesystem_mount implies flat_mount.                              *)
(***************************************************************************)
\* C27: in every state of the pipeline, during the walk, between the phases,
\* and during and after teardown, failing unmounts included, a volume whose
\* filesystem_mount is set has its flat_mount set.
C27_FilesystemMountHasFlatMount ==
    \A t \in Tags : \A v \in 1..Len(infos[t].volumes) :
        infos[t].volumes[v].filesystem_mount => infos[t].volumes[v].flat_mount

(***************************************************************************)
(* C28.  The overlays of on-the-fly decryption.                            *)
(***************************************************************************)
\* the volumes the called plugin unlocked, from volume v on, in list order
RECURSIVE UnlockedFrom(_)
UnlockedFrom(v) ==
    IF v > Len(dinfo.volumes) THEN <<>>
    ELSE (IF dinfo.volumes[v].mounted = dinfo.called THEN <<v>> ELSE <<>>)
            \o UnlockedFrom(v + 1)

\* C28: before_create_disk of an on-the-fly-decrypt plugin adds, for each
\* volume it unlocked, one extent whose source is the plaintext device at
\* offset 0 and whose target is the on-disk offset and the length of the
\* parent (encrypted) volume, and sets keep_mounted; volumes that were not
\* unlocked add no extent and leave keep_mounted unset.
C28_OverlayPerUnlockedVolume ==
    dinfo.called # "none" =>
        LET vols == dinfo.volumes
            u == UnlockedFrom(1)
        IN  /\ Len(added) = Len(u)
            /\ \A k \in 1..Len(u) :
                    /\ k <= Len(added)
                    /\ added[k] = VirtualDiskPart(vols[u[k]].flat_mount,
                                                  vols[vols[u[k]].parent].size, 0,
                                                  vols[vols[u[k]].parent].at)
            /\ dinfo.keep_mounted = (u # <<>>)

(***************************************************************************)
(* C29.  Firmware detection.                                               *)
(***************************************************************************)
\* some partition of an analysed disk has the ESP type of its scheme
SomeEspPartition ==
    \E d \in 1..Len(efi.disks) : \E i \in 1..Len(efi.disks[d].types) :
        \/ /\ efi.disks[d].partition_scheme = "gpt"
           /\ efi.disks[d].types[i] = "C12A7328-F81F-11D2-BA4B-00A0C93EC93B"
        \/ /\ efi.disks[d].partition_scheme = "mbr"
           /\ efi.disks[d].types[i] = "0xEF"

\* C29: with the EFI-detect plugin registered, the firmware of the written VM
\* is EFI if and only if some partition of an analysed input disk has the ESP
\* type (the GPT GUID on a GPT disk, type byte 0xEF on an MBR disk); otherwise
\* it is BIOS.
C29_FirmwareByEsp ==
    efi.written # "none" =>
        efi.written = (IF SomeEspPartition THEN "efi" ELSE "bios")

\* a VM was written for a GPT disk without an ESP and an additional MBR disk
\* whose second partition has type 0xEF, the user having asked for BIOS
C29_Witness ==
    /\ efi.written = "efi"
    /\ efi.option = "bios"
    /\ Len(efi.disks) = 2
    /\ efi.disks[1] = [partition_scheme |-> "gpt",
                       types |-> <<"EBD0A0A2-B9E5-4433-87C0-68B6B72699C7">>]
    /\ efi.disks[2] = [partition_scheme |-> "mbr", types |-> <<"0x83", "0xEF">>]

(***************************************************************************)
(* C30.  Determinism of the descriptor files.                              *)
(***************************************************************************)
\* C30: creating the VM, removing the output directory and creating it again
\* from the same inputs and options gives the same descriptor files, apart from
\* the recorded RTC start time, whatever plugins are registered, the
\* on-the-fly-decrypt plugins included.
C30_SameDescriptors ==
    \A i, j \in 1..Len(created.files) :
        created.files[i].extents = created.files[j].extents

(***************************************************************************)
(* C31.  Starting the VM and waiting for it.                               *)
(***************************************************************************)
\* every mount ctx.mount_contexts retained is still in place
RetainedInPlace ==
    /\ ~ctx_exiting
    /\ \A d \in returned : promoted[d] \subseteq held

\* the VM is started if and only if start_vm is set (a failing start() raises),
\* and only after the snapshot "InitFinished"
StartedIffSet ==
    /\ vm_state # "off" => (start_vm = "set" /\ "InitFinished" \in SeqToSet(snapshots))
    /\ start_vm = "unset" => vm_state = "off"
    /\ (start_vm = "set" /\ vm_state = "off") =>
            (pc \in {"raise", "exited"} /\ result # "ok")

\* while the VM runs, run has not ended and holds the retained mounts
WaitsWhileRunning == vm_state = "running" => (result = "running" /\ RetainedInPlace)

\* once is_running() returned false, run waits no longer
LeavesWhenStopped == vm_state = "finished" => pc \in {"leave_ctx", "raise", "exited"}

\* C31: run starts the VM if and only if start_vm is set, and only after the
\* snapshot "InitFinished"; once the VM is started, run does not return and
\* does not release the mounts kept for the VM (keep_mounted) until is_running()
\* has returned false, and it returns once is_running() returns false.
C31_StartAndWait ==
    /\ StartedIffSet
    /\ WaitsWhileRunning
    /\ LeavesWhenStopped
    /\ (vm_state = "finished" /\ pc = "exited") => result = "ok"

(***************************************************************************)
(* C32.  Head overlap.                                                     *)
(***************************************************************************)
\* p starts inside the target range of new and ends after it
HeadOverlapped(new, p) ==
    /\ new.target_offset <= p.target_offset
    /\ p.target_offset < PartEnd(new)
    /\ PartEnd(new) < PartEnd(p)

\* C32: head overlap. When an existing extent p starts inside the target range
\* of new and ends after it, a successful add_part(new) advances
\* p.target_offset and p.source_offset by the overlap new.end - p.start and
\* shrinks p.length by it: p becomes [new.end, p.end) and names the same source
\* bytes as before for every target byte it keeps.
C32_HeadOverlap ==
    last_result = "ok" =>
        \A k \in 1..Len(prev_parts) :
            HeadOverlapped(last_part, prev_parts[k]) =>
                \E i \in 1..Len(disk_parts) :
                    disk_parts[i] = TailOf(prev_parts[k], last_part)

(***************************************************************************)
(* C33.  The volumes a mount hook returns.                                 *)
(***************************************************************************)
\* the step is an iteration of _mount_filesystems in which `mount` returned
\* the volumes of the container on volume idx
MountReturnedVolumes ==
    /\ pc = "mount_filesystems"
    /\ mount_log' # mount_log
    /\ infos[tag].volumes[idx].content.type \in {"crypt", "lvm"}
    /\ \/ hook_log' # hook_log
       \/ infos'[tag].volumes # infos[tag].volumes
       \/ (infos[tag].volumes[idx].content.type = "crypt" /\ held' # held)

\* the volumes the container on volume p of info yields
ReturnedBy(info, p) ==
    NewVolumes(info.volumes[p].content, p,
               info.volumes[p].image_rw /\ ~MountReadOnly(info.volumes[p].content, info),
               Len(info.volumes[p].content.inner))

\* C33: when `mount` returns a volume or a list of volumes for volume p, every
\* returned child is appended to disk.volumes with p as its parent, and
\* mounted_volume (and modify_volume on a writable disk) is dispatched for it;
\* when processing one child fails, every child the plugin created is still in
\* disk.volumes, where teardown finds and unmounts it.
C33_ChildrenKnownToTeardown ==
    [][MountReturnedVolumes =>
        /\ infos'[tag].volumes = infos[tag].volumes \o ReturnedBy(infos[tag], idx)
        /\ pc' # "raise" =>
                hook_log' = hook_log \o ChildrenHooks(infos[tag], Len(infos[tag].volumes) + 1,
                                                      Len(infos'[tag].volumes))]_vars

(***************************************************************************)
(* C34.  The runs of the disk descriptor.                                  *)
(***************************************************************************)
\* the sectors of the first j runs
RECURSIVE SectorsIn(_, _)
SectorsIn(runs, j) == IF j = 0 THEN 0 ELSE SectorsIn(runs, j - 1) + runs[j].sectors

\* the positions of the runs that name a source file, in order
RECURSIVE FlatRuns(_, _)
FlatRuns(runs, j) ==
    IF j > Len(runs) THEN <<>>
    ELSE (IF runs[j].kind = "FLAT" THEN <<j>> ELSE <<>>) \o FlatRuns(runs, j + 1)

\* the runs tile the target range of parts: run after run, each extent where
\* its target_offset says, zero-fill runs in the gaps
Tiles(runs, parts, ssize) ==
    LET flat == FlatRuns(runs, 1)
    IN  /\ \A j \in 1..Len(runs) : runs[j].sectors >= 0
        /\ Len(flat) = Len(parts)
        /\ \A k \in 1..Len(flat) :
                /\ SectorsIn(runs, flat[k] - 1) * ssize = parts[k].target_offset
                /\ runs[flat[k]].sectors * ssize = parts[k].length
                /\ runs[flat[k]].offset * ssize = parts[k].source_offset
                /\ runs[flat[k]].path = parts[k].source_file
        /\ \A j \in 1..Len(runs) :
                runs[j].kind = "ZERO" => (j < Len(runs) /\ runs[j + 1].kind = "FLAT")

\* C34: write(out_dir) emits the runs of the descriptor in target order so that
\* they tile [0, end of the last extent) without gap or overlap: a zero-fill run
\* of the size of the gap before each extent that does not start where the run
\* before it ended, no run with a negative sector count, each extent as
\* length/sector_size sectors from source sector source_offset/sector_size of
\* its file; for every extent list add_part can produce and wherever the source
\* files lie.
C34_RunsTile ==
    \A i \in 1..Len(created.files) :
        /\ created.files[i].error = "none"
        /\ Tiles(created.files[i].extents, created.files[i].parts, sector_size)

(***************************************************************************)
(* C35.  The extent of the whole image.                                    *)
(***************************************************************************)
\* the extent that covers an image of the given size
WholeImage(size) == VirtualDiskPart("img", size, 0, 0)

\* C35: for every valid input disk the orchestrator creates a disk builder
\* that at first holds one extent covering the whole source file (the image,
\* source_offset 0, target_offset 0, the size of the image as length); when no
\* plugin adds an overlay that extent is the final extent list of the disk, and
\* the builder is attached to the VM builder.
C35_WholeImageExtent ==
    /\ last_result # "none" =>
            /\ last_result = "ok"
            /\ disk_parts = <<WholeImage(last_part.length)>>
    /\ \A i \in 1..Len(built) : built[i].disk_parts = <<WholeImage(built[i].image_size)>>

(***************************************************************************)
(* C36.  The reset of /etc/shadow.                                         *)
(***************************************************************************)
\* the password field the claim leaves alone: empty, or locked
KeptPassword(pw) == pw = "" \/ pw \in {"!", "*"}

\* C36: the reset of /etc/shadow replaces the password field of every entry
\* whose hash is non-empty and not locked by a new SHA-256 crypt of the new
\* password; it leaves unchanged every entry with an empty or locked (`!`, `*`)
\* password field, and every other field of every entry.
C36_ShadowReset ==
    (shadow.modified /\ shadow.exists) =>
        /\ Len(shadow.lines) = Len(shadow.before)
        /\ \A i \in 1..Len(shadow.lines) :
                LET b == shadow.before[i]
                    a == shadow.lines[i]
                IN  /\ Len(a) = Len(b)
                    /\ \A f \in 1..Len(b) : f # 2 => a[f] = b[f]
                    /\ Len(b) >= 2 =>
                            a[2] = IF KeptPassword(b[2]) THEN b[2] ELSE hash_password

(***************************************************************************)
(* C37.  Where the overlays of on-the-fly decryption lie.                  *)
(***************************************************************************)
\* part lies inside the on-disk byte range of the partition volume p
InsidePartition(part, p) ==
    /\ p.parent = 0
    /\ p.offset <= part.target_offset
    /\ PartEnd(part) <= p.offset + p.size

\* C37: every extent an on-the-fly-decrypt plugin adds lies inside the on-disk
\* byte range [offset, offset + size) of one partition of that disk, whatever
\* the containment tree, a LUKS container in a logical volume included.
C37_OverlayInsidePartition ==
    \A k \in 1..Len(added) :
        \E v \in 1..Len(dinfo.volumes) : InsidePartition(added[k], dinfo.volumes[v])

(***************************************************************************)
(* C38.  No empty extent.                                                  *)
(***************************************************************************)
\* C38: after any sequence of successful add_part calls every extent of
\* disk_parts has a length above 0 and a source offset of at least 0: add_part
\* neither leaves nor admits an empty extent or one of negative length.
C38_NoEmptyExtent ==
    \A i \in 1..Len(disk_parts) :
        /\ disk_parts[i].length > 0
        /\ disk_parts[i].source_offset >= 0

(***************************************************************************)
(* C39.  mounted_disk, once per opening.                                   *)
(***************************************************************************)
\* the dispatches of mounted_disk among the hooks dispatched for the DiskInfo
\* of the opening in scope
MountedDiskDispatches ==
    Cardinality({ k \in 1..Len(hook_log) : hook_log[k].hook = "mounted_disk" })

\* C39: mounted_disk is dispatched exactly once per opening of a disk: once
\* for each input disk opened read-only during analysis and once for each
\* virtual disk opened writable.
C39_MountedDiskOnce ==
    hook_log # <<>> => MountedDiskDispatches = 1

(***************************************************************************)
(* C40.  before_create_disk sees the disk mounted.                         *)
(***************************************************************************)
\* every flat_mount and filesystem_mount set on a volume of the DiskInfo of t
\* is there on the host
StillMounted(t) ==
    LET vols == infos[t].volumes
    IN  \A v \in 1..Len(vols) :
            /\ vols[v].flat_mount =>
                    TokenOf(t, vols, [op |-> "unmount_volume", v |-> v]) \in held
            /\ vols[v].filesystem_mount => Token("fsmount", t, v) \in held

\* C40: for every input disk before_create_disk is dispatched after the mount
\* walk of that disk has finished and before any unmount hook is dispatched
\* for a volume of that disk, so that every filesystem_mount and flat_mount a
\* plugin reads or puts into an extent is still mounted at that moment; and
\* the VM is written only after before_create_disk has run for every input
\* disk.
C40_BeforeCreateDiskSeesMounts ==
    /\ pc = "before_create_disk" =>
            /\ tag = <<TRUE, cur>>
            /\ infos[tag].alive
            /\ Len(mount_log) = Len(infos[tag].volumes)
            /\ \A v \in 1..Len(infos[tag].volumes) : infos[tag].volumes[v].flat_mount
            /\ unmount_log = <<>>
            /\ StillMounted(tag)
    /\ vm_written =>
            /\ Len(built) = Len(images)
            /\ returned = 1..Len(images)

\* before_create_disk is about to be dispatched for the second input disk,
\* whose walk went down into a container and mounted a filesystem
C40_Witness ==
    /\ pc = "before_create_disk"
    /\ cur = 2
    /\ \E v \in 1..Len(infos[tag].volumes) :
            /\ infos[tag].volumes[v].filesystem_mount
            /\ infos[tag].volumes[v].parent # 0

====
